---------------------------- MODULE Spec2Model ----------------------------
(***************************************************************************)
(* Verification model of the learning-go repository: the phase-01          *)
(* exercises (FizzBuzz, TempConvertor, divide, apply) and the programs     *)
(* shown in the phase plans (Add/FuzzAdd, the mutex counter, WorkerPool).  *)
(*                                                                         *)
(* The programs are independent of one another.  Each has its own group of *)
(* variables and its own specification; while one program runs, the        *)
(* variables of the others are parked at a fixed value.                    *)
(***************************************************************************)
EXTENDS Integers, Sequences, FiniteSets, TLC

VARIABLES
    \* FizzBuzz (exercise-03.go)
    fbPc, fbN, fbResult, fbWasModified,
    \* Add and FuzzAdd (plans/10-testing.md)
    addPc, addA, addB, addResult, addSwapped, addErrors,
    \* TempConvertor (unnamed/part_000)
    tcPc, tcTemp, tcMode, tcFused, tcCelsius, tcFahrenheit, tcKelvin,
    \* divide (unnamed/part_001) and Divide (plans/10-testing.md)
    dvPc, dvFn, dvA, dvB, dvX, dvY, dvResult, dvErr,
    \* apply (unnamed/part_001)
    apPc, apNums, apFn, apArg, apResult, apI, apReturned,
    \* the mutex-protected counter (plans/05-concurrency-fundamentals.md)
    mcMainPc, mcI, mcG, mcTmp, mcMu, mcCounter, mcOut,
    \* WorkerPool (plans/06-advanced-concurrency.md)
    wpMainPc, wpWorkers, wpStartI, wpTaskCh, wpTaskChClosed, wpQuit, wpWg, wpW,
    wpTask, wpSubmitted, wpExecuted,
    \* idGenerator (unnamed/part_001)
    igPc, igCreated, igStart, igId, igCalls, igLast,
    \* OrDone (plans/06-advanced-concurrency.md)
    odPc, odDone, odC, odCClosed, odSent, odV, odValClosed, odOut,
    \* Tee (plans/06-advanced-concurrency.md)
    tePc, teDone, teIn, teInClosed, teSent, teRead, teOdPc, teOdV,
    teStreamClosed, teVal, teI, teNil1, teNil2, teOut1, teOut2, teOutClosed,
    \* Queue (plans/06-advanced-concurrency.md)
    quPc, quDone, quQueue, quNext, quOutNil, quCaller, quV, quCalled,
    quReceived, quOutClosed,
    \* CircuitBreaker (plans/06-advanced-concurrency.md)
    cbMaxFailures, cbTimeout, cbState, cbFailures, cbLastFailTime, cbMu, cbNow,
    cbPc, cbErr, cbRet, cbLog,
    \* RateLimiter (plans/06-advanced-concurrency.md)
    rlPc, rlBurst, rlI, rlTokens, rlTick, rlRefill, rlCall, rlCtxDone, rlRet,
    \* workerPool (plans/05-concurrency-fundamentals.md)
    jpPc, jpN, jpI, jpWg, jpW, jpJob, jpJobs, jpProduced, jpJobsClosed,
    jpResults, jpCloser, jpCloses, jpPanic,
    \* withTimeout (plans/05-concurrency-fundamentals.md)
    wtPc, wtTimeout, wtNow, wtDeadline, wtGo, wtOut, wtResultCh, wtErrCh,
    wtRet,
    \* TimeoutMiddleware (unnamed/part_002)
    tmPc, tmTimeout, tmNow, tmNext, tmNextWrites, tmCtxDone, tmDone, tmWrites,
    tmInWrite,
    \* AuthMiddleware (unnamed/part_002)
    auPc, auSecret, auHeader, auStatus, auBody, auUser, auNextCalls,
    auNextUser,
    \* WithRetry (plans/04-error-handling.md)
    wrPc, wrMax, wrI, wrLastErr, wrLog, wrSlept, wrRet

fbVars == <<fbPc, fbN, fbResult, fbWasModified>>
addVars == <<addPc, addA, addB, addResult, addSwapped, addErrors>>
tcVars == <<tcPc, tcTemp, tcMode, tcFused, tcCelsius, tcFahrenheit, tcKelvin>>
dvVars == <<dvPc, dvFn, dvA, dvB, dvX, dvY, dvResult, dvErr>>
apVars == <<apPc, apNums, apFn, apArg, apResult, apI, apReturned>>
mcVars == <<mcMainPc, mcI, mcG, mcTmp, mcMu, mcCounter, mcOut>>
wpVars ==
    <<wpMainPc, wpWorkers, wpStartI, wpTaskCh, wpTaskChClosed, wpQuit, wpWg,
      wpW, wpTask, wpSubmitted, wpExecuted>>
igVars == <<igPc, igCreated, igStart, igId, igCalls, igLast>>
odVars == <<odPc, odDone, odC, odCClosed, odSent, odV, odValClosed, odOut>>
teVars ==
    <<tePc, teDone, teIn, teInClosed, teSent, teRead, teOdPc, teOdV,
      teStreamClosed, teVal, teI, teNil1, teNil2, teOut1, teOut2, teOutClosed>>
quVars ==
    <<quPc, quDone, quQueue, quNext, quOutNil, quCaller, quV, quCalled,
      quReceived, quOutClosed>>
cbVars ==
    <<cbMaxFailures, cbTimeout, cbState, cbFailures, cbLastFailTime, cbMu,
      cbNow, cbPc, cbErr, cbRet, cbLog>>
rlVars ==
    <<rlPc, rlBurst, rlI, rlTokens, rlTick, rlRefill, rlCall, rlCtxDone, rlRet>>
jpVars ==
    <<jpPc, jpN, jpI, jpWg, jpW, jpJob, jpJobs, jpProduced, jpJobsClosed,
      jpResults, jpCloser, jpCloses, jpPanic>>
wtVars ==
    <<wtPc, wtTimeout, wtNow, wtDeadline, wtGo, wtOut, wtResultCh, wtErrCh,
      wtRet>>
tmVars ==
    <<tmPc, tmTimeout, tmNow, tmNext, tmNextWrites, tmCtxDone, tmDone,
      tmWrites, tmInWrite>>
auVars ==
    <<auPc, auSecret, auHeader, auStatus, auBody, auUser, auNextCalls,
      auNextUser>>
wrVars == <<wrPc, wrMax, wrI, wrLastErr, wrLog, wrSlept, wrRet>>

vars ==
    <<fbVars, addVars, tcVars, dvVars, apVars, mcVars, wpVars, igVars, odVars,
      teVars, quVars, cbVars, rlVars, jpVars, wtVars, tmVars, auVars, wrVars>>

\* What each program leaves alone: the variables of the other programs.
fbOthers ==
    <<addVars, tcVars, dvVars, apVars, mcVars, wpVars, igVars, odVars, teVars,
      quVars, cbVars, rlVars, jpVars, wtVars, tmVars, auVars, wrVars>>
addOthers ==
    <<fbVars, tcVars, dvVars, apVars, mcVars, wpVars, igVars, odVars, teVars,
      quVars, cbVars, rlVars, jpVars, wtVars, tmVars, auVars, wrVars>>
tcOthers ==
    <<fbVars, addVars, dvVars, apVars, mcVars, wpVars, igVars, odVars, teVars,
      quVars, cbVars, rlVars, jpVars, wtVars, tmVars, auVars, wrVars>>
dvOthers ==
    <<fbVars, addVars, tcVars, apVars, mcVars, wpVars, igVars, odVars, teVars,
      quVars, cbVars, rlVars, jpVars, wtVars, tmVars, auVars, wrVars>>
apOthers ==
    <<fbVars, addVars, tcVars, dvVars, mcVars, wpVars, igVars, odVars, teVars,
      quVars, cbVars, rlVars, jpVars, wtVars, tmVars, auVars, wrVars>>
mcOthers ==
    <<fbVars, addVars, tcVars, dvVars, apVars, wpVars, igVars, odVars, teVars,
      quVars, cbVars, rlVars, jpVars, wtVars, tmVars, auVars, wrVars>>
wpOthers ==
    <<fbVars, addVars, tcVars, dvVars, apVars, mcVars, igVars, odVars, teVars,
      quVars, cbVars, rlVars, jpVars, wtVars, tmVars, auVars, wrVars>>
igOthers ==
    <<fbVars, addVars, tcVars, dvVars, apVars, mcVars, wpVars, odVars, teVars,
      quVars, cbVars, rlVars, jpVars, wtVars, tmVars, auVars, wrVars>>
odOthers ==
    <<fbVars, addVars, tcVars, dvVars, apVars, mcVars, wpVars, igVars, teVars,
      quVars, cbVars, rlVars, jpVars, wtVars, tmVars, auVars, wrVars>>
teOthers ==
    <<fbVars, addVars, tcVars, dvVars, apVars, mcVars, wpVars, igVars, odVars,
      quVars, cbVars, rlVars, jpVars, wtVars, tmVars, auVars, wrVars>>
quOthers ==
    <<fbVars, addVars, tcVars, dvVars, apVars, mcVars, wpVars, igVars, odVars,
      teVars, cbVars, rlVars, jpVars, wtVars, tmVars, auVars, wrVars>>
cbOthers ==
    <<fbVars, addVars, tcVars, dvVars, apVars, mcVars, wpVars, igVars, odVars,
      teVars, quVars, rlVars, jpVars, wtVars, tmVars, auVars, wrVars>>
rlOthers ==
    <<fbVars, addVars, tcVars, dvVars, apVars, mcVars, wpVars, igVars, odVars,
      teVars, quVars, cbVars, jpVars, wtVars, tmVars, auVars, wrVars>>
jpOthers ==
    <<fbVars, addVars, tcVars, dvVars, apVars, mcVars, wpVars, igVars, odVars,
      teVars, quVars, cbVars, rlVars, wtVars, tmVars, auVars, wrVars>>
wtOthers ==
    <<fbVars, addVars, tcVars, dvVars, apVars, mcVars, wpVars, igVars, odVars,
      teVars, quVars, cbVars, rlVars, jpVars, tmVars, auVars, wrVars>>
tmOthers ==
    <<fbVars, addVars, tcVars, dvVars, apVars, mcVars, wpVars, igVars, odVars,
      teVars, quVars, cbVars, rlVars, jpVars, wtVars, auVars, wrVars>>
auOthers ==
    <<fbVars, addVars, tcVars, dvVars, apVars, mcVars, wpVars, igVars, odVars,
      teVars, quVars, cbVars, rlVars, jpVars, wtVars, tmVars, wrVars>>
wrOthers ==
    <<fbVars, addVars, tcVars, dvVars, apVars, mcVars, wpVars, igVars, odVars,
      teVars, quVars, cbVars, rlVars, jpVars, wtVars, tmVars, auVars>>

(***************************************************************************)
(* Strings are sequences of one-character strings, so that formatting an   *)
(* integer is a computation and not the identity.                          *)
(***************************************************************************)
DigitChars == <<"0", "1", "2", "3", "4", "5", "6", "7", "8", "9">>

RECURSIVE FormatUint(_)
\* strconv's decimal formatting of a non-negative integer: most significant
\* digit first, no leading zero, "0" for zero.
FormatUint(u) ==
    IF u < 10 THEN <<DigitChars[u + 1]>>
    ELSE Append(FormatUint(u \div 10), DigitChars[(u % 10) + 1])

\* fmt.Sprint(n) for an int: a minus sign for negatives, then the digits.
Sprint(n) == IF n < 0 THEN <<"-">> \o FormatUint(-n) ELSE FormatUint(n)

\* Go's % truncates toward zero: the remainder has the sign of the dividend.
GoRem(a, b) == IF a >= 0 THEN a % b ELSE -((-a) % b)

(***************************************************************************)
(* FizzBuzz                                                                *)
(***************************************************************************)
FizzRange == 60

FizzInputs == (-FizzRange)..FizzRange

StrFizzBuzz == <<"F", "i", "z", "z", "B", "u", "z", "z">>
StrFizz == <<"F", "i", "z", "z">>
StrBuzz == <<"B", "u", "z", "z">>

\* A FizzBuzz whose cases are in the wrong order: 3 is tested before 15.
FizzBuzzCaseOrder(n) ==
    IF GoRem(n, 3) = 0 THEN [result |-> StrFizz, wasModified |-> TRUE]
    ELSE IF GoRem(n, 15) = 0 THEN [result |-> StrFizzBuzz, wasModified |-> TRUE]
    ELSE IF GoRem(n, 5) = 0 THEN [result |-> StrBuzz, wasModified |-> TRUE]
    ELSE [result |-> Sprint(n), wasModified |-> FALSE]

\* A FizzBuzz whose default case forgets to clear wasModified.
FizzBuzzFlagStuck(n) ==
    IF GoRem(n, 15) = 0 THEN [result |-> StrFizzBuzz, wasModified |-> TRUE]
    ELSE IF GoRem(n, 3) = 0 THEN [result |-> StrFizz, wasModified |-> TRUE]
    ELSE IF GoRem(n, 5) = 0 THEN [result |-> StrBuzz, wasModified |-> TRUE]
    ELSE [result |-> Sprint(n), wasModified |-> TRUE]

\* func FizzBuzz(n int) (result string, wasModified bool)
FizzBuzz(n) ==
    IF GoRem(n, 15) = 0 THEN [result |-> StrFizzBuzz, wasModified |-> TRUE]
    ELSE IF GoRem(n, 3) = 0 THEN [result |-> StrFizz, wasModified |-> TRUE]
    ELSE IF GoRem(n, 5) = 0 THEN [result |-> StrBuzz, wasModified |-> TRUE]
    ELSE [result |-> Sprint(n), wasModified |-> FALSE]

FizzBuzzInit ==
    /\ fbPc = "call"
    /\ fbN \in FizzInputs
    /\ fbResult = <<>>
    /\ fbWasModified = FALSE

FizzBuzzParked ==
    /\ fbPc = "off"
    /\ fbN = 0
    /\ fbResult = <<>>
    /\ fbWasModified = FALSE

\* A caller runs FizzBuzz(fbN) and keeps both return values.
FizzBuzzCall ==
    /\ fbPc = "call"
    /\ fbResult' = FizzBuzz(fbN).result
    /\ fbWasModified' = FizzBuzz(fbN).wasModified
    /\ fbPc' = "done"
    /\ UNCHANGED fbN
    /\ UNCHANGED fbOthers

FizzBuzzNext == FizzBuzzCall

(***************************************************************************)
(* Machine integers.  A Go int is a word of IntSize bits in two's          *)
(* complement; it is kept here as the sequence of its bits, least          *)
(* significant first, so that arithmetic wraps exactly as the machine's.   *)
(***************************************************************************)
IntSize == 64

RECURSIVE Tabulate(_, _, _)
\* The sequence <<F(lo), ..., F(hi)>>.
Tabulate(F(_), lo, hi) ==
    IF lo > hi THEN <<>>
    ELSE IF lo = hi THEN <<F(lo)>>
    ELSE Tabulate(F, lo, (lo + hi) \div 2) \o Tabulate(F, (lo + hi) \div 2 + 1, hi)

\* The natural number k < 2^30 as a word of w bits, least significant first.
NatBits(k, w) ==
    Tabulate(LAMBDA i : IF i <= 30 THEN (k \div (2 ^ (i - 1))) % 2 ELSE 0, 1, w)

NotBits(x) == Tabulate(LAMBDA i : 1 - x[i], 1, Len(x))

\* The int whose value is the small integer k.
IntOf(k) == IF k >= 0 THEN NatBits(k, IntSize) ELSE NotBits(NatBits(-k - 1, IntSize))

\* math.MaxInt - k and math.MinInt + k, for a small k >= 0.
MaxIntMinus(k) == SubSeq(NotBits(NatBits(k, IntSize)), 1, IntSize - 1) \o <<0>>
MinIntPlus(k) == SubSeq(NatBits(k, IntSize), 1, IntSize - 1) \o <<1>>

IsNegative(x) == x[IntSize] = 1

RECURSIVE AddCarry(_, _, _)
\* The adder on two words of the same length with a carry in: the sum bits
\* and the carry out.  The low half is added first and its carry goes into
\* the high half.
AddCarry(x, y, c) ==
    IF Len(x) = 0 THEN [s |-> <<>>, c |-> c]
    ELSE IF Len(x) = 1
    THEN [s |-> <<(x[1] + y[1] + c) % 2>>, c |-> (x[1] + y[1] + c) \div 2]
    ELSE LET h == Len(x) \div 2
             lo == AddCarry(SubSeq(x, 1, h), SubSeq(y, 1, h), c)
             hi == AddCarry(SubSeq(x, h + 1, Len(x)), SubSeq(y, h + 1, Len(x)), lo.c)
         IN  [s |-> lo.s \o hi.s, c |-> hi.c]

\* The sum of two words: the carry out of the top bit is lost.
AddBits(x, y, c) == AddCarry(x, y, c).s

\* Unsigned x < y on bits 1..i: the highest bit where they differ decides.
LessBitsFrom(x, y, i) ==
    \E j \in 1..i : x[j] < y[j] /\ \A k \in (j + 1)..i : x[k] = y[k]

\* The signed comparison x < y of two ints.
IntLess(x, y) ==
    IF x[IntSize] # y[IntSize] THEN x[IntSize] = 1
    ELSE LessBitsFrom(x, y, IntSize - 1)

(***************************************************************************)
(* Natural numbers of any size, as bit sequences (least significant bit    *)
(* first).  They carry the 53-bit significands of float64 values and the   *)
(* exact products and sums that are rounded back to float64.               *)
(***************************************************************************)
Zeros(n) == Tabulate(LAMBDA i : 0, 1, n)

Max2(a, b) == IF a >= b THEN a ELSE b
Min2(a, b) == IF a <= b THEN a ELSE b

\* Bit i of x; the bits past its length are 0.
Bit(x, i) == IF i >= 1 /\ i <= Len(x) THEN x[i] ELSE 0

\* x padded (or cut) to exactly n bits.
Pad(x, n) == Tabulate(LAMBDA i : Bit(x, i), 1, n)

\* The position of the highest 1 bit: 0 for zero.
BitLen(x) ==
    IF \A i \in 1..Len(x) : x[i] = 0 THEN 0
    ELSE CHOOSE i \in 1..Len(x) : x[i] = 1 /\ \A j \in (i + 1)..Len(x) : x[j] = 0

ShiftLeft(x, k) == Zeros(k) \o x
ShiftRight(x, k) == IF k >= Len(x) THEN <<>> ELSE SubSeq(x, k + 1, Len(x))

NatAdd(x, y) ==
    LET n == Max2(Len(x), Len(y)) + 1
    IN  AddBits(Pad(x, n), Pad(y, n), 0)

\* x - y, for x >= y.
NatSub(x, y) ==
    LET n == Max2(Len(x), Len(y))
    IN  AddBits(Pad(x, n), NotBits(Pad(y, n)), 1)

NatLess(x, y) ==
    LET n == Max2(Len(x), Len(y))
    IN  LessBitsFrom(Pad(x, n), Pad(y, n), n)

\* The number of pairs i + j = k + 1 with x[i] = y[j] = 1: column k of the
\* schoolbook product.
MulColumn(x, y, k) ==
    Cardinality({i \in Max2(1, k + 1 - Len(y))..Min2(Len(x), k) :
                    x[i] = 1 /\ y[k + 1 - i] = 1})

RECURSIVE MulCarry(_, _, _, _, _)
\* Columns lo..hi of the product with a carry in: the bits and the carry out.
MulCarry(x, y, lo, hi, carry) ==
    IF lo = hi
    THEN [s |-> <<(MulColumn(x, y, lo) + carry) % 2>>,
          c |-> (MulColumn(x, y, lo) + carry) \div 2]
    ELSE LET mid == (lo + hi) \div 2
             low == MulCarry(x, y, lo, mid, carry)
             high == MulCarry(x, y, mid + 1, hi, low.c)
         IN  [s |-> low.s \o high.s, c |-> high.c]

NatMul(x, y) ==
    IF x = <<>> \/ y = <<>> THEN <<>> ELSE MulCarry(x, y, 1, Len(x) + Len(y), 0).s

RECURSIVE DivSteps(_, _, _, _, _)
\* Long division of x by d over bits hi down to lo, entered with the
\* remainder rem: the quotient bits hi..lo (most significant first, the order
\* in which they are produced) and the remainder left.
DivSteps(x, d, hi, lo, rem) ==
    IF hi = lo
    THEN LET r1 == Pad(<<x[hi]>> \o rem, Len(d) + 1)
         IN  IF NatLess(r1, d) THEN [q |-> <<0>>, r |-> r1]
             ELSE [q |-> <<1>>, r |-> Pad(NatSub(r1, d), Len(d) + 1)]
    ELSE LET mid == (lo + hi) \div 2
             high == DivSteps(x, d, hi, mid + 1, rem)
             low == DivSteps(x, d, mid, lo, high.r)
         IN  [q |-> high.q \o low.q, r |-> low.r]

Reverse(x) == Tabulate(LAMBDA i : x[Len(x) + 1 - i], 1, Len(x))

\* Quotient and remainder of x by d, for x of at least one bit and d > 0.
NatDivMod(x, d) ==
    LET qr == DivSteps(x, d, Len(x), 1, Zeros(Len(d) + 1))
    IN  [q |-> Reverse(qr.q), r |-> qr.r]

(***************************************************************************)
(* float64: IEEE 754 binary64, round to nearest even.  A finite value is   *)
(* (-1)^s * m * 2^e with m a significand of MantBits bits; m has its top   *)
(* bit set (a normal number) or e = MinExp (zero and the subnormals).      *)
(***************************************************************************)
MantBits == 53
MinExp == -1074
MaxExp == 971

Fin(s, m, e) == [k |-> "fin", s |-> s, m |-> Pad(m, MantBits), e |-> e]
Inf(s) == [k |-> "inf", s |-> s, m |-> Zeros(MantBits), e |-> 0]
NaN == [k |-> "nan", s |-> 0, m |-> Zeros(MantBits), e |-> 0]
FZero(s) == Fin(s, <<>>, MinExp)

IsNaN(a) == a.k = "nan"
IsInf(a) == a.k = "inf"
IsZero(a) == a.k = "fin" /\ BitLen(a.m) = 0

\* Whether M, cut after its lowest sh bits, rounds up: the first bit cut is 1
\* and a lower bit or the last bit kept is 1 (ties go to the even significand).
RoundsUp(M, sh) ==
    /\ Bit(M, sh) = 1
    /\ \/ \E i \in 1..(sh - 1) : Bit(M, i) = 1
       \/ Bit(M, sh + 1) = 1

\* M without its lowest sh bits, rounded to nearest.
Nearest(M, sh) ==
    IF RoundsUp(M, sh) THEN NatAdd(ShiftRight(M, sh), <<1>>) ELSE ShiftRight(M, sh)

\* The value (-1)^s * m * 2^e, or an infinity when e is past the range.
FinOrInf(s, m, e) == IF e > MaxExp THEN Inf(s) ELSE Fin(s, m, e)

\* The rounded significand m1 at exponent e1: rounding up may have carried
\* into one bit more than a significand holds.
Renormalize(s, m1, e1) ==
    IF BitLen(m1) > MantBits THEN FinOrInf(s, ShiftRight(m1, 1), e1 + 1)
    ELSE FinOrInf(s, m1, e1)

\* (-1)^s * M * 2^E rounded to a significand whose last place is 2^e1.
RoundTo(s, M, E, e1) ==
    IF e1 <= E THEN FinOrInf(s, ShiftLeft(M, E - e1), e1)
    ELSE Renormalize(s, Nearest(M, e1 - E), e1)

\* The float64 nearest to (-1)^s * M * 2^E, ties to the even significand.
RoundFloat(s, M, E) ==
    IF BitLen(M) = 0 THEN FZero(s)
    ELSE RoundTo(s, M, E, Max2(E + BitLen(M) - MantBits, MinExp))

\* The float64 nearest to an exact value given as sign, magnitude, exponent.
RoundExact(p) == RoundFloat(p.s, p.m, p.e)

Xor(a, b) == IF a = b THEN 0 ELSE 1

FNeg(a) == IF IsNaN(a) THEN a ELSE [a EXCEPT !.s = 1 - a.s]

\* The sum of two magnitudes with signs, both at exponent e0.
SignedSum(sx, mx, sy, my, e0) ==
    IF sx = sy THEN [s |-> sx, m |-> NatAdd(mx, my), e |-> e0]
    ELSE IF NatLess(mx, my) THEN [s |-> sy, m |-> NatSub(my, mx), e |-> e0]
    ELSE [s |-> sx, m |-> NatSub(mx, my), e |-> e0]

\* The sum of two finite values, aligned at the lower exponent.
AlignedSum(x, y) ==
    SignedSum(x.s, ShiftLeft(x.m, x.e - Min2(x.e, y.e)),
              y.s, ShiftLeft(y.m, y.e - Min2(x.e, y.e)),
              Min2(x.e, y.e))

\* The exponent of the top bit of a non-zero value.
TopExp(x) == x.e + BitLen(x.m)

\* The exponent below which nothing added to x can do more than decide the
\* rounding: under the last bit of x and under its last place as a float64.
LowExp(x) == Min2(x.e, TopExp(x) - MantBits) - 4

\* What is left of y next to a much larger x: a value under LowExp(x), which
\* rounds as y does.
Sticky(x, y) == [s |-> y.s, m |-> <<1>>, e |-> LowExp(x)]

\* The sum of two non-zero finite values, as sign, magnitude, exponent: exact,
\* unless one operand is too small to do more than decide the rounding.
ExactSum(x, y) ==
    IF TopExp(y) <= LowExp(x) THEN AlignedSum(x, Sticky(x, y))
    ELSE IF TopExp(x) <= LowExp(y) THEN AlignedSum(Sticky(y, x), y)
    ELSE AlignedSum(x, y)

\* The exact product of two finite values.
ExactProduct(a, b) == [s |-> Xor(a.s, b.s), m |-> NatMul(a.m, b.m), e |-> a.e + b.e]

\* The rounding of an exact sum; an exact zero from opposite signs is +0.
RoundSum(d) == IF BitLen(d.m) = 0 THEN FZero(0) ELSE RoundExact(d)

\* a + b
FAdd(a, b) ==
    IF IsNaN(a) \/ IsNaN(b) \/ (IsInf(a) /\ IsInf(b) /\ a.s # b.s) THEN NaN
    ELSE IF IsInf(a) THEN a
    ELSE IF IsInf(b) THEN b
    ELSE IF IsZero(a) /\ IsZero(b) THEN FZero(IF a.s = b.s THEN a.s ELSE 0)
    ELSE IF IsZero(a) THEN b
    ELSE IF IsZero(b) THEN a
    ELSE RoundSum(ExactSum(a, b))

\* a - b
FSub(a, b) == FAdd(a, FNeg(b))

\* a * b
FMul(a, b) ==
    IF IsNaN(a) \/ IsNaN(b) \/ (IsInf(a) /\ IsZero(b)) \/ (IsZero(a) /\ IsInf(b)) THEN NaN
    ELSE IF IsInf(a) \/ IsInf(b) THEN Inf(Xor(a.s, b.s))
    ELSE IF IsZero(a) \/ IsZero(b) THEN FZero(Xor(a.s, b.s))
    ELSE RoundExact(ExactProduct(a, b))

\* The fused multiply-add a * b + c: one rounding, of the exact result.
FMA(a, b, c) ==
    IF IsNaN(a) \/ IsNaN(b) \/ IsNaN(c) \/ IsInf(a) \/ IsInf(b) \/ IsInf(c)
           \/ IsZero(a) \/ IsZero(b)
    THEN FAdd(FMul(a, b), c)
    ELSE IF IsZero(c) THEN FMul(a, b)
    ELSE RoundSum(ExactSum(ExactProduct(a, b), c))

\* The rounding of a quotient with its remainder: a remainder that is not zero
\* goes in as one more bit under the quotient.
RoundQuotient(s, qr, E) ==
    RoundFloat(s, <<IF BitLen(qr.r) = 0 THEN 0 ELSE 1>> \o qr.q, E)

\* a / b for finite non-zero a and b, with a shifted left by sh bits so that
\* the quotient has more bits than a significand.
DivideShifted(a, b, sh) ==
    RoundQuotient(Xor(a.s, b.s),
                  NatDivMod(ShiftLeft(a.m, sh), Pad(b.m, BitLen(b.m))),
                  a.e - b.e - sh - 1)

\* a / b
FDiv(a, b) ==
    IF IsNaN(a) \/ IsNaN(b) \/ (IsInf(a) /\ IsInf(b)) \/ (IsZero(a) /\ IsZero(b)) THEN NaN
    ELSE IF IsInf(a) \/ IsZero(b) THEN Inf(Xor(a.s, b.s))
    ELSE IF IsInf(b) \/ IsZero(a) THEN FZero(Xor(a.s, b.s))
    ELSE DivideShifted(a, b, Max2(0, BitLen(b.m) + MantBits + 2 - BitLen(a.m)))

\* a == b: NaN equals nothing, and -0 equals +0.
FEq(a, b) ==
    IF IsNaN(a) \/ IsNaN(b) THEN FALSE
    ELSE IF IsZero(a) /\ IsZero(b) THEN TRUE
    ELSE a = b

\* float64(x) for an int x.
FloatOfInt(x) ==
    IF IsNegative(x) THEN RoundFloat(1, AddBits(NotBits(x), Zeros(IntSize), 1), 0)
    ELSE RoundFloat(0, x, 0)

\* The float64 of a small integer constant of the source.
FloatOf(k) == FloatOfInt(IntOf(k))

(***************************************************************************)
(* Add and FuzzAdd                                                         *)
(***************************************************************************)
AddRange == 2

\* Arguments near zero and near both ends of the int range.
AddInputs ==
    {IntOf(k) : k \in (-AddRange)..AddRange}
        \cup {MaxIntMinus(k) : k \in 0..AddRange}
        \cup {MinIntPlus(k) : k \in 0..AddRange}

\* An Add that subtracts: a one-character slip.
AddSubtracts(a, b) == AddBits(a, NotBits(b), 1)

\* func Add(a, b int) int { return a + b }
Add(a, b) == AddBits(a, b, 0)

AddInit ==
    /\ addPc = "call"
    /\ addA \in AddInputs
    /\ addB \in AddInputs
    /\ addResult = IntOf(0)
    /\ addSwapped = IntOf(0)
    /\ addErrors = {}

AddParked ==
    /\ addPc = "off"
    /\ addA = IntOf(0)
    /\ addB = IntOf(0)
    /\ addResult = IntOf(0)
    /\ addSwapped = IntOf(0)
    /\ addErrors = {}

\* The body FuzzAdd runs on one pair (a, b): it calls Add(a, b) and Add(b, a)
\* and reports an error for each of its two properties that fails.
FuzzAddBody ==
    /\ addPc = "call"
    /\ addResult' = Add(addA, addB)
    /\ addSwapped' = Add(addB, addA)
    /\ addErrors' =
          (IF Add(addB, addA) # Add(addA, addB) THEN {"not commutative"} ELSE {})
              \cup (IF /\ ~IsNegative(addA)
                       /\ ~IsNegative(addB)
                       /\ IntLess(Add(addA, addB), addA)
                    THEN {"unexpected result"}
                    ELSE {})
    /\ addPc' = "done"
    /\ UNCHANGED <<addA, addB>>
    /\ UNCHANGED addOthers

FuzzAddNext == FuzzAddBody

(***************************************************************************)
(* TempConvertor                                                           *)
(***************************************************************************)
Celsius == 0
Fahrenheit == 1
Kelvin == 2

\* The source's float64 constants: float64(9) / float64(5),
\* float64(5) / float64(9), and the literals 273.15 and 32.
NineOverFive == FDiv(FloatOf(9), FloatOf(5))
FiveOverNine == FDiv(FloatOf(5), FloatOf(9))
Lit273_15 == FDiv(FloatOf(27315), FloatOf(100))
Lit32 == FloatOf(32)

\* x * y + z as the build computes it.  The language lets an implementation
\* fuse the two operations into one that rounds once; whether it does
\* depends on the target, so the model takes both.
MulAdd(x, y, z, fused) == IF fused THEN FMA(x, y, z) ELSE FAdd(FMul(x, y), z)

TempRange == 12
TempTenths == 33
TempModeMax == 3

\* Whole degrees, tenths of a degree, absolute zero and the non-finite values.
TempInputs ==
    {FloatOf(k) : k \in (-TempRange)..TempRange}
        \cup {FDiv(FloatOf(k), FloatOf(10)) : k \in (-TempTenths)..TempTenths}
        \cup {Lit273_15, FNeg(Lit273_15), Inf(0), Inf(1), NaN}

\* A TempConvertor whose Celsius case multiplies by the wrong factor.
TempConvertorWrongFactor(temp, mode, fused) ==
    IF mode = Celsius
    THEN [celsius |-> temp,
          kelvin |-> FAdd(temp, Lit273_15),
          fahrenheit |-> MulAdd(temp, FiveOverNine, Lit32, fused)]
    ELSE IF mode = Fahrenheit
    THEN [fahrenheit |-> temp,
          celsius |-> FMul(FSub(temp, Lit32), FiveOverNine),
          kelvin |-> MulAdd(FSub(temp, Lit32), FiveOverNine, Lit273_15, fused)]
    ELSE IF mode = Kelvin
    THEN [kelvin |-> temp,
          celsius |-> FSub(temp, Lit273_15),
          fahrenheit |-> MulAdd(FSub(temp, Lit273_15), NineOverFive, Lit32, fused)]
    ELSE [celsius |-> FloatOf(0), fahrenheit |-> FloatOf(0), kelvin |-> FloatOf(0)]

\* A TempConvertor whose default case treats temp as degrees Celsius.
TempConvertorDefaultCelsius(temp, mode, fused) ==
    IF mode = Fahrenheit
    THEN [fahrenheit |-> temp,
          celsius |-> FMul(FSub(temp, Lit32), FiveOverNine),
          kelvin |-> MulAdd(FSub(temp, Lit32), FiveOverNine, Lit273_15, fused)]
    ELSE IF mode = Kelvin
    THEN [kelvin |-> temp,
          celsius |-> FSub(temp, Lit273_15),
          fahrenheit |-> MulAdd(FSub(temp, Lit273_15), NineOverFive, Lit32, fused)]
    ELSE [celsius |-> temp,
          kelvin |-> FAdd(temp, Lit273_15),
          fahrenheit |-> MulAdd(temp, NineOverFive, Lit32, fused)]

\* func TempConvertor(temp float64, mode Temp) (celsius, fahrenheit, kelvin float64)
TempConvertor(temp, mode, fused) ==
    IF mode = Celsius
    THEN [celsius |-> temp,
          kelvin |-> FAdd(temp, Lit273_15),
          fahrenheit |-> MulAdd(temp, NineOverFive, Lit32, fused)]
    ELSE IF mode = Fahrenheit
    THEN [fahrenheit |-> temp,
          celsius |-> FMul(FSub(temp, Lit32), FiveOverNine),
          kelvin |-> MulAdd(FSub(temp, Lit32), FiveOverNine, Lit273_15, fused)]
    ELSE IF mode = Kelvin
    THEN [kelvin |-> temp,
          celsius |-> FSub(temp, Lit273_15),
          fahrenheit |-> MulAdd(FSub(temp, Lit273_15), NineOverFive, Lit32, fused)]
    ELSE [celsius |-> FloatOf(0), fahrenheit |-> FloatOf(0), kelvin |-> FloatOf(0)]

TempInit ==
    /\ tcPc = "call"
    /\ tcTemp \in TempInputs
    /\ tcMode \in 0..TempModeMax
    /\ tcFused \in BOOLEAN
    /\ tcCelsius = FloatOf(0)
    /\ tcFahrenheit = FloatOf(0)
    /\ tcKelvin = FloatOf(0)

TempParked ==
    /\ tcPc = "off"
    /\ tcTemp = FloatOf(0)
    /\ tcMode = 0
    /\ tcFused = FALSE
    /\ tcCelsius = FloatOf(0)
    /\ tcFahrenheit = FloatOf(0)
    /\ tcKelvin = FloatOf(0)

\* The caller's three variables take the three results.
TempReturn(r) ==
    /\ tcCelsius' = r.celsius
    /\ tcFahrenheit' = r.fahrenheit
    /\ tcKelvin' = r.kelvin

\* A caller runs TempConvertor(tcTemp, tcMode) and keeps the three results.
TempConvertorCall ==
    /\ tcPc = "call"
    /\ TempReturn(TempConvertor(tcTemp, tcMode, tcFused))
    /\ tcPc' = "done"
    /\ UNCHANGED <<tcTemp, tcMode, tcFused>>
    /\ UNCHANGED tcOthers

TempNext == TempConvertorCall

(***************************************************************************)
(* divide and Divide                                                       *)
(***************************************************************************)
NilError == [isNil |-> TRUE, msg |-> ""]
ErrorsNew(msg) == [isNil |-> FALSE, msg |-> msg]

DivRange == 4

\* int arguments of divide, and float64 arguments of Divide.
DivideInts ==
    {IntOf(k) : k \in (-DivRange)..DivRange} \cup {MaxIntMinus(0), MinIntPlus(0)}
DivideFloats ==
    {FloatOf(k) : k \in (-DivRange)..DivRange}
        \cup {FZero(1), FDiv(FloatOf(1), FloatOf(2)), Inf(0), Inf(1), NaN}

\* A divide that tests the dividend instead of the divisor.
divideTestsDividend(a, b) ==
    [result |-> FDiv(FloatOfInt(a), FloatOfInt(b)),
     err |-> IF a = IntOf(0) THEN ErrorsNew("Cannot divide by zero!") ELSE NilError]

\* func divide(a, b int) (result float64, err error), of part_001: the error
\* is set when b == 0, and the division is done in either case.
divide(a, b) ==
    [result |-> FDiv(FloatOfInt(a), FloatOfInt(b)),
     err |-> IF b = IntOf(0) THEN ErrorsNew("Cannot divide by zero!") ELSE NilError]

\* func Divide(a, b float64) (float64, error), of the plans: an early return
\* of 0 and the error when b == 0.
Divide(a, b) ==
    IF FEq(b, FloatOf(0)) THEN [result |-> FloatOf(0), err |-> ErrorsNew("division by zero")]
    ELSE [result |-> FDiv(a, b), err |-> NilError]

DivideInit ==
    /\ dvPc = "call"
    /\ \/ /\ dvFn = "divide"
          /\ dvA \in DivideInts
          /\ dvB \in DivideInts
          /\ dvX = FloatOf(0)
          /\ dvY = FloatOf(0)
       \/ /\ dvFn = "Divide"
          /\ dvX \in DivideFloats
          /\ dvY \in DivideFloats
          /\ dvA = IntOf(0)
          /\ dvB = IntOf(0)
    /\ dvResult = FloatOf(0)
    /\ dvErr = NilError

DivideParked ==
    /\ dvPc = "off"
    /\ dvFn = "divide"
    /\ dvA = IntOf(0)
    /\ dvB = IntOf(0)
    /\ dvX = FloatOf(0)
    /\ dvY = FloatOf(0)
    /\ dvResult = FloatOf(0)
    /\ dvErr = NilError

\* The caller's two variables take the two results.
DivideReturn(r) ==
    /\ dvResult' = r.result
    /\ dvErr' = r.err

\* A caller runs divide(dvA, dvB).
divideCall ==
    /\ dvPc = "call"
    /\ dvFn = "divide"
    /\ DivideReturn(divide(dvA, dvB))
    /\ dvPc' = "done"
    /\ UNCHANGED <<dvFn, dvA, dvB, dvX, dvY>>
    /\ UNCHANGED dvOthers

\* A caller runs Divide(dvX, dvY).
DivideCall ==
    /\ dvPc = "call"
    /\ dvFn = "Divide"
    /\ DivideReturn(Divide(dvX, dvY))
    /\ dvPc' = "done"
    /\ UNCHANGED <<dvFn, dvA, dvB, dvX, dvY>>
    /\ UNCHANGED dvOthers

DivideNext == divideCall \/ DivideCall

(***************************************************************************)
(* apply                                                                   *)
(***************************************************************************)
ApplyMaxLen == 3
ApplyMaxValue == 2

ApplyValues == (-ApplyMaxValue)..ApplyMaxValue
ApplySlices == UNION {[1..n -> ApplyValues] : n \in 0..ApplyMaxLen}

\* The functions callers pass: main passes the squaring function.
ApplyFns == {"square", "increment", "negate"}

ApplyFn(fn, v) ==
    IF fn = "square" THEN v * v
    ELSE IF fn = "increment" THEN v + 1
    ELSE -v

\* A loop body that stores into nums as well, as it would if result shared
\* the array of nums instead of being made afresh.
ApplyStoreShared(nums, result, i, fn) ==
    [nums |-> [nums EXCEPT ![i] = ApplyFn(fn, nums[i])],
     result |-> [result EXCEPT ![i] = ApplyFn(fn, nums[i])]]

\* The loop body result[i] = fn(val), for val = nums[i] (1-based here).
ApplyStore(nums, result, i, fn) ==
    [nums |-> nums,
     result |-> [result EXCEPT ![i] = ApplyFn(fn, nums[i])]]

ApplyInit ==
    /\ apPc = "call"
    /\ apNums \in ApplySlices
    /\ apFn \in ApplyFns
    /\ apArg = apNums
    /\ apResult = <<>>
    /\ apI = 0
    /\ apReturned = <<>>

ApplyParked ==
    /\ apPc = "off"
    /\ apNums = <<>>
    /\ apFn = "square"
    /\ apArg = <<>>
    /\ apResult = <<>>
    /\ apI = 0
    /\ apReturned = <<>>

\* result := make([]int, len(nums))
ApplyMake ==
    /\ apPc = "call"
    /\ apResult' = Zeros(Len(apNums))
    /\ apI' = 0
    /\ apPc' = "loop"
    /\ UNCHANGED <<apNums, apFn, apArg, apReturned>>
    /\ UNCHANGED apOthers

\* One iteration of for i, val := range nums.
ApplyLoop ==
    /\ apPc = "loop"
    /\ apI < Len(apNums)
    /\ LET st == ApplyStore(apNums, apResult, apI + 1, apFn)
       IN  /\ apNums' = st.nums
           /\ apResult' = st.result
    /\ apI' = apI + 1
    /\ UNCHANGED <<apPc, apFn, apArg, apReturned>>
    /\ UNCHANGED apOthers

\* return result
ApplyReturn ==
    /\ apPc = "loop"
    /\ apI = Len(apNums)
    /\ apReturned' = apResult
    /\ apPc' = "done"
    /\ UNCHANGED <<apNums, apFn, apArg, apResult, apI>>
    /\ UNCHANGED apOthers

ApplyNext == ApplyMake \/ ApplyLoop \/ ApplyReturn

(***************************************************************************)
(* The counter protected by a mutex.  main starts NumGoroutines goroutines *)
(* (1000 in the source), sleeps, and prints the counter.                   *)
(***************************************************************************)
NumGoroutines == 3

Goroutines == 1..NumGoroutines

CounterInit ==
    /\ mcMainPc = "loop"
    /\ mcI = 0
    /\ mcG = [g \in Goroutines |-> "none"]
    /\ mcTmp = [g \in Goroutines |-> 0]
    /\ mcMu = 0
    /\ mcCounter = 0
    /\ mcOut = <<>>

CounterParked ==
    /\ mcMainPc = "off"
    /\ mcI = 0
    /\ mcG = [g \in Goroutines |-> "none"]
    /\ mcTmp = [g \in Goroutines |-> 0]
    /\ mcMu = 0
    /\ mcCounter = 0
    /\ mcOut = <<>>

\* for i := 0; i < 1000; i++ { go func() { ... }() }
MainGo ==
    /\ mcMainPc = "loop"
    /\ mcI < NumGoroutines
    /\ mcG' = [mcG EXCEPT ![mcI + 1] = "lock"]
    /\ mcI' = mcI + 1
    /\ UNCHANGED <<mcMainPc, mcTmp, mcMu, mcCounter, mcOut>>
    /\ UNCHANGED mcOthers

\* The loop ends and main calls time.Sleep(time.Second).
MainSleep ==
    /\ mcMainPc = "loop"
    /\ mcI = NumGoroutines
    /\ mcMainPc' = "sleep"
    /\ UNCHANGED <<mcI, mcG, mcTmp, mcMu, mcCounter, mcOut>>
    /\ UNCHANGED mcOthers

\* The second is over.  Sleeping orders nothing: how far the goroutines have
\* got by then is up to the scheduler.
MainWake ==
    /\ mcMainPc = "sleep"
    /\ mcMainPc' = "print"
    /\ UNCHANGED <<mcI, mcG, mcTmp, mcMu, mcCounter, mcOut>>
    /\ UNCHANGED mcOthers

\* fmt.Println(counter); main returns and the program exits.
MainPrint ==
    /\ mcMainPc = "print"
    /\ mcOut' = Append(mcOut, mcCounter)
    /\ mcMainPc' = "done"
    /\ UNCHANGED <<mcI, mcG, mcTmp, mcMu, mcCounter>>
    /\ UNCHANGED mcOthers

\* mu.Lock()
GoLock(g) ==
    /\ mcMainPc # "done"
    /\ mcG[g] = "lock"
    /\ mcMu = 0
    /\ mcMu' = g
    /\ mcG' = [mcG EXCEPT ![g] = "load"]
    /\ UNCHANGED <<mcMainPc, mcI, mcTmp, mcCounter, mcOut>>
    /\ UNCHANGED mcOthers

\* counter++ reads the counter ...
GoLoad(g) ==
    /\ mcMainPc # "done"
    /\ mcG[g] = "load"
    /\ mcTmp' = [mcTmp EXCEPT ![g] = mcCounter]
    /\ mcG' = [mcG EXCEPT ![g] = "store"]
    /\ UNCHANGED <<mcMainPc, mcI, mcMu, mcCounter, mcOut>>
    /\ UNCHANGED mcOthers

\* ... and writes it back plus one.
GoStore(g) ==
    /\ mcMainPc # "done"
    /\ mcG[g] = "store"
    /\ mcCounter' = mcTmp[g] + 1
    /\ mcG' = [mcG EXCEPT ![g] = "unlock"]
    /\ UNCHANGED <<mcMainPc, mcI, mcTmp, mcMu, mcOut>>
    /\ UNCHANGED mcOthers

\* mu.Unlock()
GoUnlock(g) ==
    /\ mcMainPc # "done"
    /\ mcG[g] = "unlock"
    /\ mcMu' = 0
    /\ mcG' = [mcG EXCEPT ![g] = "done"]
    /\ UNCHANGED <<mcMainPc, mcI, mcTmp, mcCounter, mcOut>>
    /\ UNCHANGED mcOthers

CounterNext ==
    \/ MainGo
    \/ MainSleep
    \/ MainWake
    \/ MainPrint
    \/ \E g \in Goroutines : GoLock(g) \/ GoLoad(g) \/ GoStore(g) \/ GoUnlock(g)

(***************************************************************************)
(* WorkerPool                                                              *)
(***************************************************************************)
TaskChCap == 100
MaxWorkers == 2
MaxTasks == 3

Workers == 1..MaxWorkers

\* NewWorkerPool(workers)
WorkerPoolInit ==
    /\ wpMainPc = "new"
    /\ wpWorkers \in 0..MaxWorkers
    /\ wpStartI = 0
    /\ wpTaskCh = <<>>
    /\ wpTaskChClosed = FALSE
    /\ wpQuit = FALSE
    /\ wpWg = 0
    /\ wpW = [w \in Workers |-> "none"]
    /\ wpTask = [w \in Workers |-> 0]
    /\ wpSubmitted = 0
    /\ wpExecuted = <<>>

WorkerPoolParked ==
    /\ wpMainPc = "off"
    /\ wpWorkers = 0
    /\ wpStartI = 0
    /\ wpTaskCh = <<>>
    /\ wpTaskChClosed = FALSE
    /\ wpQuit = FALSE
    /\ wpWg = 0
    /\ wpW = [w \in Workers |-> "none"]
    /\ wpTask = [w \in Workers |-> 0]
    /\ wpSubmitted = 0
    /\ wpExecuted = <<>>

\* Start: one iteration of the loop, p.wg.Add(1); go p.worker()
StartGo ==
    /\ wpMainPc \in {"new", "starting"}
    /\ wpStartI < wpWorkers
    /\ wpWg' = wpWg + 1
    /\ wpW' = [wpW EXCEPT ![wpStartI + 1] = "select"]
    /\ wpStartI' = wpStartI + 1
    /\ wpMainPc' = "starting"
    /\ UNCHANGED <<wpWorkers, wpTaskCh, wpTaskChClosed, wpQuit, wpTask,
                   wpSubmitted, wpExecuted>>
    /\ UNCHANGED wpOthers

\* Start returns.
StartReturn ==
    /\ wpMainPc \in {"new", "starting"}
    /\ wpStartI = wpWorkers
    /\ wpMainPc' = "running"
    /\ UNCHANGED <<wpWorkers, wpStartI, wpTaskCh, wpTaskChClosed, wpQuit, wpWg,
                   wpW, wpTask, wpSubmitted, wpExecuted>>
    /\ UNCHANGED wpOthers

\* Submit(task), called before Stop: the select sends the task when taskCh has
\* room.  (Its other case, <-p.quit, needs quit closed.)
Submit ==
    /\ wpMainPc \in {"new", "starting", "running"}
    /\ wpSubmitted < MaxTasks
    /\ \/ /\ Len(wpTaskCh) < TaskChCap
          /\ wpTaskCh' = Append(wpTaskCh, wpSubmitted + 1)
       \/ /\ wpQuit
          /\ UNCHANGED wpTaskCh
    /\ wpSubmitted' = wpSubmitted + 1
    /\ UNCHANGED <<wpMainPc, wpWorkers, wpStartI, wpTaskChClosed, wpQuit, wpWg,
                   wpW, wpTask, wpExecuted>>
    /\ UNCHANGED wpOthers

\* Stop: close(p.quit)
StopClose ==
    /\ wpMainPc = "running"
    /\ wpQuit' = TRUE
    /\ wpMainPc' = "waiting"
    /\ UNCHANGED <<wpWorkers, wpStartI, wpTaskCh, wpTaskChClosed, wpWg, wpW,
                   wpTask, wpSubmitted, wpExecuted>>
    /\ UNCHANGED wpOthers

\* Stop: p.wg.Wait() returns once the counter is zero.
StopWait ==
    /\ wpMainPc = "waiting"
    /\ wpWg = 0
    /\ wpMainPc' = "returned"
    /\ UNCHANGED <<wpWorkers, wpStartI, wpTaskCh, wpTaskChClosed, wpQuit, wpWg,
                   wpW, wpTask, wpSubmitted, wpExecuted>>
    /\ UNCHANGED wpOthers

\* worker: the select takes case task := <-p.taskCh.
WorkerSelectTask(w) ==
    /\ wpW[w] = "select"
    /\ wpTaskCh # <<>>
    /\ wpTask' = [wpTask EXCEPT ![w] = Head(wpTaskCh)]
    /\ wpTaskCh' = Tail(wpTaskCh)
    /\ wpW' = [wpW EXCEPT ![w] = "execute"]
    /\ UNCHANGED <<wpMainPc, wpWorkers, wpStartI, wpTaskChClosed, wpQuit, wpWg,
                   wpSubmitted, wpExecuted>>
    /\ UNCHANGED wpOthers

\* worker: the select takes case <-p.quit and enters the drain loop.
WorkerSelectQuit(w) ==
    /\ wpW[w] = "select"
    /\ wpQuit
    /\ wpW' = [wpW EXCEPT ![w] = "drain"]
    /\ UNCHANGED <<wpMainPc, wpWorkers, wpStartI, wpTaskCh, wpTaskChClosed,
                   wpQuit, wpWg, wpTask, wpSubmitted, wpExecuted>>
    /\ UNCHANGED wpOthers

\* worker: task.Execute(), in the select loop or in the drain loop.
WorkerExecute(w) ==
    /\ wpW[w] \in {"execute", "drainExecute"}
    /\ wpExecuted' = Append(wpExecuted, wpTask[w])
    /\ wpW' = [wpW EXCEPT ![w] = IF wpW[w] = "execute" THEN "select" ELSE "drain"]
    /\ UNCHANGED <<wpMainPc, wpWorkers, wpStartI, wpTaskCh, wpTaskChClosed,
                   wpQuit, wpWg, wpTask, wpSubmitted>>
    /\ UNCHANGED wpOthers

\* A drain loop that returns as soon as it finds taskCh empty.
WorkerDrainUntilEmpty(w) ==
    /\ wpW[w] = "drain"
    /\ IF wpTaskCh # <<>>
       THEN /\ wpTask' = [wpTask EXCEPT ![w] = Head(wpTaskCh)]
            /\ wpTaskCh' = Tail(wpTaskCh)
            /\ wpW' = [wpW EXCEPT ![w] = "drainExecute"]
            /\ UNCHANGED wpWg
       ELSE /\ wpWg' = wpWg - 1
            /\ wpW' = [wpW EXCEPT ![w] = "exited"]
            /\ UNCHANGED <<wpTask, wpTaskCh>>
    /\ UNCHANGED <<wpMainPc, wpWorkers, wpStartI, wpTaskChClosed, wpQuit,
                   wpSubmitted, wpExecuted>>
    /\ UNCHANGED wpOthers

\* worker: for task := range p.taskCh.  The loop receives the next task; on
\* an empty channel it waits, and it ends (return, then the deferred
\* p.wg.Done()) only when taskCh is closed.
WorkerDrain(w) ==
    /\ wpW[w] = "drain"
    /\ IF wpTaskCh # <<>>
       THEN /\ wpTask' = [wpTask EXCEPT ![w] = Head(wpTaskCh)]
            /\ wpTaskCh' = Tail(wpTaskCh)
            /\ wpW' = [wpW EXCEPT ![w] = "drainExecute"]
            /\ UNCHANGED wpWg
       ELSE /\ wpTaskChClosed
            /\ wpWg' = wpWg - 1
            /\ wpW' = [wpW EXCEPT ![w] = "exited"]
            /\ UNCHANGED <<wpTask, wpTaskCh>>
    /\ UNCHANGED <<wpMainPc, wpWorkers, wpStartI, wpTaskChClosed, wpQuit,
                   wpSubmitted, wpExecuted>>
    /\ UNCHANGED wpOthers

WorkerPoolNext ==
    \/ StartGo
    \/ StartReturn
    \/ Submit
    \/ StopClose
    \/ StopWait
    \/ \E w \in Workers :
          \/ WorkerSelectTask(w)
          \/ WorkerSelectQuit(w)
          \/ WorkerExecute(w)
          \/ WorkerDrain(w)

(***************************************************************************)
(* idGenerator: each call of idGenerator makes a closure with its own id.  *)
(***************************************************************************)
IdRange == 1
IdMaxCalls == 3

\* Two generators, made by separate calls of idGenerator.
Generators == {1, 2}

\* Values of start near zero and at both ends of the int range.
IdStarts ==
    {IntOf(k) : k \in (-IdRange)..IdRange} \cup {MaxIntMinus(0), MinIntPlus(0)}

\* A call that steps the id of every generator, as it would if the closures
\* shared one package-level id.
IdIncrementShared(ids, g) == [h \in DOMAIN ids |-> AddBits(ids[h], IntOf(1), 0)]

\* id++ in the closure g: the id captured by g, and no other, goes up by one.
IdIncrement(ids, g) == [ids EXCEPT ![g] = AddBits(ids[g], IntOf(1), 0)]

IdGeneratorInit ==
    /\ igPc = "run"
    /\ igCreated = [g \in Generators |-> FALSE]
    /\ igStart = [g \in Generators |-> IntOf(0)]
    /\ igId = [g \in Generators |-> IntOf(0)]
    /\ igCalls = [g \in Generators |-> 0]
    /\ igLast = [g \in Generators |-> IntOf(0)]

IdGeneratorParked ==
    /\ igPc = "off"
    /\ igCreated = [g \in Generators |-> FALSE]
    /\ igStart = [g \in Generators |-> IntOf(0)]
    /\ igId = [g \in Generators |-> IntOf(0)]
    /\ igCalls = [g \in Generators |-> 0]
    /\ igLast = [g \in Generators |-> IntOf(0)]

\* g := idGenerator(start): id := start - 1, and the closure is returned.
idGenerator(g, start) ==
    /\ igPc = "run"
    /\ ~igCreated[g]
    /\ igCreated' = [igCreated EXCEPT ![g] = TRUE]
    /\ igStart' = [igStart EXCEPT ![g] = start]
    /\ igId' = [igId EXCEPT ![g] = AddBits(start, NotBits(IntOf(1)), 1)]
    /\ UNCHANGED <<igPc, igCalls, igLast>>
    /\ UNCHANGED igOthers

\* A call g(): id++; return id.
IdGeneratorCall(g) ==
    /\ igPc = "run"
    /\ igCreated[g]
    /\ igCalls[g] < IdMaxCalls
    /\ igId' = IdIncrement(igId, g)
    /\ igLast' = [igLast EXCEPT ![g] = IdIncrement(igId, g)[g]]
    /\ igCalls' = [igCalls EXCEPT ![g] = igCalls[g] + 1]
    /\ UNCHANGED <<igPc, igCreated, igStart>>
    /\ UNCHANGED igOthers

IdGeneratorNext ==
    \E g \in Generators :
        \/ \E start \in IdStarts : idGenerator(g, start)
        \/ IdGeneratorCall(g)

(***************************************************************************)
(* OrDone.  The channel c is seen from its receiving end: odC holds the    *)
(* values a receive can get now (buffered, or offered by a blocked         *)
(* sender), and odCClosed tells that c was closed.  The consumer of the    *)
(* returned channel valStream is always ready to receive.                  *)
(***************************************************************************)
OrDoneMaxValues == 3
OrDoneChanCap == 2

OrDoneInit ==
    /\ odPc = "select"
    /\ odDone = FALSE
    /\ odC = <<>>
    /\ odCClosed = FALSE
    /\ odSent = 0
    /\ odV = 0
    /\ odValClosed = FALSE
    /\ odOut = <<>>

OrDoneParked ==
    /\ odPc = "off"
    /\ odDone = FALSE
    /\ odC = <<>>
    /\ odCClosed = FALSE
    /\ odSent = 0
    /\ odV = 0
    /\ odValClosed = FALSE
    /\ odOut = <<>>

\* The owner of done closes it.
OrDoneCloseDone ==
    /\ odPc # "off"
    /\ ~odDone
    /\ odDone' = TRUE
    /\ UNCHANGED <<odPc, odC, odCClosed, odSent, odV, odValClosed, odOut>>
    /\ UNCHANGED odOthers

\* The producer sends its next value on c.
OrDoneProduce ==
    /\ odPc # "off"
    /\ ~odCClosed
    /\ odSent < OrDoneMaxValues
    /\ Len(odC) < OrDoneChanCap
    /\ odC' = Append(odC, odSent + 1)
    /\ odSent' = odSent + 1
    /\ UNCHANGED <<odPc, odDone, odCClosed, odV, odValClosed, odOut>>
    /\ UNCHANGED odOthers

\* The producer closes c.
OrDoneCloseC ==
    /\ odPc # "off"
    /\ ~odCClosed
    /\ odCClosed' = TRUE
    /\ UNCHANGED <<odPc, odDone, odC, odSent, odV, odValClosed, odOut>>
    /\ UNCHANGED odOthers

\* A return that leaves valStream open, as it would without the defer.
OrDoneReturnNoClose == odPc' = "exited" /\ odValClosed' = odValClosed

\* return: the goroutine ends and the deferred close(valStream) runs.
OrDoneReturn == odPc' = "exited" /\ odValClosed' = TRUE

\* Outer select, case <-done: return.
OrDoneSelectDone ==
    /\ odPc = "select"
    /\ odDone
    /\ OrDoneReturn
    /\ UNCHANGED <<odDone, odC, odCClosed, odSent, odV, odOut>>
    /\ UNCHANGED odOthers

\* Outer select, case v, ok := <-c with ok true: go on to send v.
OrDoneReceive ==
    /\ odPc = "select"
    /\ odC # <<>>
    /\ odV' = Head(odC)
    /\ odC' = Tail(odC)
    /\ odPc' = "send"
    /\ UNCHANGED <<odDone, odCClosed, odSent, odValClosed, odOut>>
    /\ UNCHANGED odOthers

\* Outer select, case v, ok := <-c with ok false (c closed and empty): return.
OrDoneReceiveClosed ==
    /\ odPc = "select"
    /\ odC = <<>>
    /\ odCClosed
    /\ OrDoneReturn
    /\ UNCHANGED <<odDone, odC, odCClosed, odSent, odV, odOut>>
    /\ UNCHANGED odOthers

\* Inner select, case valStream <- v: the consumer receives v.
OrDoneSendValue ==
    /\ odPc = "send"
    /\ odOut' = Append(odOut, odV)
    /\ odPc' = "select"
    /\ UNCHANGED <<odDone, odC, odCClosed, odSent, odV, odValClosed>>
    /\ UNCHANGED odOthers

\* Inner select, case <-done: v is dropped and the loop goes round.
OrDoneSendDone ==
    /\ odPc = "send"
    /\ odDone
    /\ odPc' = "select"
    /\ UNCHANGED <<odDone, odC, odCClosed, odSent, odV, odValClosed, odOut>>
    /\ UNCHANGED odOthers

\* The steps of OrDone's goroutine.
OrDoneStep ==
    \/ OrDoneSelectDone
    \/ OrDoneReceive
    \/ OrDoneReceiveClosed
    \/ OrDoneSendValue
    \/ OrDoneSendDone

OrDoneNext ==
    \/ OrDoneCloseDone
    \/ OrDoneProduce
    \/ OrDoneCloseC
    \/ OrDoneStep

(***************************************************************************)
(* Tee.  Its goroutine ranges over OrDone(done, in), so two goroutines     *)
(* run: OrDone's, which reads in, and Tee's, which sends each value on     *)
(* out1 and on out2.  teRead records the values read from in; teOut1 and   *)
(* teOut2 record what the two consumers have received.                     *)
(***************************************************************************)
TeeMaxValues == 3
TeeChanCap == 1

TeeInit ==
    /\ tePc = "range"
    /\ teDone = FALSE
    /\ teIn = <<>>
    /\ teInClosed = FALSE
    /\ teSent = 0
    /\ teRead = <<>>
    /\ teOdPc = "select"
    /\ teOdV = 0
    /\ teStreamClosed = FALSE
    /\ teVal = 0
    /\ teI = 0
    /\ teNil1 = FALSE
    /\ teNil2 = FALSE
    /\ teOut1 = <<>>
    /\ teOut2 = <<>>
    /\ teOutClosed = FALSE

TeeParked ==
    /\ tePc = "off"
    /\ teDone = FALSE
    /\ teIn = <<>>
    /\ teInClosed = FALSE
    /\ teSent = 0
    /\ teRead = <<>>
    /\ teOdPc = "off"
    /\ teOdV = 0
    /\ teStreamClosed = FALSE
    /\ teVal = 0
    /\ teI = 0
    /\ teNil1 = FALSE
    /\ teNil2 = FALSE
    /\ teOut1 = <<>>
    /\ teOut2 = <<>>
    /\ teOutClosed = FALSE

\* The owner of done closes it.
TeeCloseDone ==
    /\ tePc # "off"
    /\ ~teDone
    /\ teDone' = TRUE
    /\ UNCHANGED <<tePc, teIn, teInClosed, teSent, teRead, teOdPc, teOdV,
                   teStreamClosed, teVal, teI, teNil1, teNil2, teOut1, teOut2,
                   teOutClosed>>
    /\ UNCHANGED teOthers

\* The producer sends its next value on in.
TeeProduce ==
    /\ tePc # "off"
    /\ ~teInClosed
    /\ teSent < TeeMaxValues
    /\ Len(teIn) < TeeChanCap
    /\ teIn' = Append(teIn, teSent + 1)
    /\ teSent' = teSent + 1
    /\ UNCHANGED <<tePc, teDone, teInClosed, teRead, teOdPc, teOdV,
                   teStreamClosed, teVal, teI, teNil1, teNil2, teOut1, teOut2,
                   teOutClosed>>
    /\ UNCHANGED teOthers

\* The producer closes in.
TeeCloseIn ==
    /\ tePc # "off"
    /\ ~teInClosed
    /\ teInClosed' = TRUE
    /\ UNCHANGED <<tePc, teDone, teIn, teSent, teRead, teOdPc, teOdV,
                   teStreamClosed, teVal, teI, teNil1, teNil2, teOut1, teOut2,
                   teOutClosed>>
    /\ UNCHANGED teOthers

\* OrDone's goroutine, outer select, case <-done: return, closing its stream.
TeeOrDoneSelectDone ==
    /\ teOdPc = "select"
    /\ teDone
    /\ teOdPc' = "exited"
    /\ teStreamClosed' = TRUE
    /\ UNCHANGED <<tePc, teDone, teIn, teInClosed, teSent, teRead, teOdV, teVal,
                   teI, teNil1, teNil2, teOut1, teOut2, teOutClosed>>
    /\ UNCHANGED teOthers

\* OrDone's goroutine, case v, ok := <-c with ok true: a value is read from in.
TeeOrDoneReceive ==
    /\ teOdPc = "select"
    /\ teIn # <<>>
    /\ teOdV' = Head(teIn)
    /\ teRead' = Append(teRead, Head(teIn))
    /\ teIn' = Tail(teIn)
    /\ teOdPc' = "send"
    /\ UNCHANGED <<tePc, teDone, teInClosed, teSent, teStreamClosed, teVal, teI,
                   teNil1, teNil2, teOut1, teOut2, teOutClosed>>
    /\ UNCHANGED teOthers

\* OrDone's goroutine, case v, ok := <-c with ok false: return.
TeeOrDoneReceiveClosed ==
    /\ teOdPc = "select"
    /\ teIn = <<>>
    /\ teInClosed
    /\ teOdPc' = "exited"
    /\ teStreamClosed' = TRUE
    /\ UNCHANGED <<tePc, teDone, teIn, teInClosed, teSent, teRead, teOdV, teVal,
                   teI, teNil1, teNil2, teOut1, teOut2, teOutClosed>>
    /\ UNCHANGED teOthers

\* OrDone's goroutine, inner select, case <-done: the value is dropped.
TeeOrDoneSendDone ==
    /\ teOdPc = "send"
    /\ teDone
    /\ teOdPc' = "select"
    /\ UNCHANGED <<tePc, teDone, teIn, teInClosed, teSent, teRead, teOdV,
                   teStreamClosed, teVal, teI, teNil1, teNil2, teOut1, teOut2,
                   teOutClosed>>
    /\ UNCHANGED teOthers

\* for val := range OrDone(done, in): OrDone's valStream <- v meets Tee's
\* receive; the body starts with var out1, out2 = out1, out2 and i := 0.
TeeRange ==
    /\ tePc = "range"
    /\ teOdPc = "send"
    /\ teVal' = teOdV
    /\ teOdPc' = "select"
    /\ tePc' = "send"
    /\ teI' = 0
    /\ teNil1' = FALSE
    /\ teNil2' = FALSE
    /\ UNCHANGED <<teDone, teIn, teInClosed, teSent, teRead, teOdV,
                   teStreamClosed, teOut1, teOut2, teOutClosed>>
    /\ UNCHANGED teOthers

\* The range ends when OrDone's stream is closed: the goroutine returns and
\* the deferred close(out2) and close(out1) run.
TeeRangeEnd ==
    /\ tePc = "range"
    /\ teStreamClosed
    /\ tePc' = "exited"
    /\ teOutClosed' = TRUE
    /\ UNCHANGED <<teDone, teIn, teInClosed, teSent, teRead, teOdPc, teOdV,
                   teStreamClosed, teVal, teI, teNil1, teNil2, teOut1, teOut2>>
    /\ UNCHANGED teOthers

\* Tee's select, case <-done: return.
TeeSelectDone ==
    /\ tePc = "send"
    /\ teDone
    /\ tePc' = "exited"
    /\ teOutClosed' = TRUE
    /\ UNCHANGED <<teDone, teIn, teInClosed, teSent, teRead, teOdPc, teOdV,
                   teStreamClosed, teVal, teI, teNil1, teNil2, teOut1, teOut2>>
    /\ UNCHANGED teOthers

\* After a send the local channel is left as it was, as it would be without
\* the assignment out1 = nil.
TeeKeepOut1 == UNCHANGED <<teNil1, teNil2>>

\* out1 = nil: the local out1 takes no second send of this value.
TeeNilOut1 == teNil1' = TRUE /\ UNCHANGED teNil2

\* out2 = nil
TeeNilOut2 == teNil2' = TRUE /\ UNCHANGED teNil1

\* i++ and the loop test i < 2: after the second send the range goes on.
TeeLoop ==
    /\ teI' = teI + 1
    /\ tePc' = IF teI + 1 < 2 THEN "send" ELSE "range"

\* Tee's select, case out1 <- val: the first consumer receives val.
TeeSendOut1 ==
    /\ tePc = "send"
    /\ ~teNil1
    /\ teOut1' = Append(teOut1, teVal)
    /\ TeeNilOut1
    /\ TeeLoop
    /\ UNCHANGED <<teDone, teIn, teInClosed, teSent, teRead, teOdPc, teOdV,
                   teStreamClosed, teVal, teOut2, teOutClosed>>
    /\ UNCHANGED teOthers

\* Tee's select, case out2 <- val: the second consumer receives val.
TeeSendOut2 ==
    /\ tePc = "send"
    /\ ~teNil2
    /\ teOut2' = Append(teOut2, teVal)
    /\ TeeNilOut2
    /\ TeeLoop
    /\ UNCHANGED <<teDone, teIn, teInClosed, teSent, teRead, teOdPc, teOdV,
                   teStreamClosed, teVal, teOut1, teOutClosed>>
    /\ UNCHANGED teOthers

TeeNext ==
    \/ TeeCloseDone
    \/ TeeProduce
    \/ TeeCloseIn
    \/ TeeOrDoneSelectDone
    \/ TeeOrDoneReceive
    \/ TeeOrDoneReceiveClosed
    \/ TeeOrDoneSendDone
    \/ TeeRange
    \/ TeeRangeEnd
    \/ TeeSelectDone
    \/ TeeSendOut1
    \/ TeeSendOut2

(***************************************************************************)
(* Queue.  One caller uses the returned enqueue function, one call after   *)
(* another; a consumer may receive from out.  quCalled records the values  *)
(* passed to enqueue, quReceived the values received from out.             *)
(***************************************************************************)
QueueMaxCalls == 3
QueueMaxValue == 2

QueueValues == 1..QueueMaxValue

QueueInit ==
    /\ quPc = "top"
    /\ quDone = FALSE
    /\ quQueue = <<>>
    /\ quNext = 0
    /\ quOutNil = TRUE
    /\ quCaller = "idle"
    /\ quV = 0
    /\ quCalled = <<>>
    /\ quReceived = <<>>
    /\ quOutClosed = FALSE

QueueParked ==
    /\ quPc = "off"
    /\ quDone = FALSE
    /\ quQueue = <<>>
    /\ quNext = 0
    /\ quOutNil = TRUE
    /\ quCaller = "idle"
    /\ quV = 0
    /\ quCalled = <<>>
    /\ quReceived = <<>>
    /\ quOutClosed = FALSE

\* The owner of done closes it.
QueueCloseDone ==
    /\ quPc # "off"
    /\ ~quDone
    /\ quDone' = TRUE
    /\ UNCHANGED <<quPc, quQueue, quNext, quOutNil, quCaller, quV, quCalled,
                   quReceived, quOutClosed>>
    /\ UNCHANGED quOthers

\* enqueue(v) is called: the caller reaches in <- v.
QueueEnqueue(v) ==
    /\ quPc # "off"
    /\ quCaller = "idle"
    /\ Len(quCalled) < QueueMaxCalls
    /\ quCaller' = "sending"
    /\ quV' = v
    /\ quCalled' = Append(quCalled, v)
    /\ UNCHANGED <<quPc, quDone, quQueue, quNext, quOutNil, quReceived,
                   quOutClosed>>
    /\ UNCHANGED quOthers

\* The top of the loop: outCh is nil for an empty queue, and otherwise
\* outCh = out and next = queue[0].
QueueLoopTop ==
    /\ quPc = "top"
    /\ quOutNil' = (Len(quQueue) = 0)
    /\ quNext' = IF Len(quQueue) = 0 THEN quNext ELSE quQueue[1]
    /\ quPc' = "select"
    /\ UNCHANGED <<quDone, quQueue, quCaller, quV, quCalled, quReceived,
                   quOutClosed>>
    /\ UNCHANGED quOthers

\* select, case <-done: return, and the deferred close(out) runs.
QueueSelectDone ==
    /\ quPc = "select"
    /\ quDone
    /\ quPc' = "exited"
    /\ quOutClosed' = TRUE
    /\ UNCHANGED <<quDone, quQueue, quNext, quOutNil, quCaller, quV, quCalled,
                   quReceived>>
    /\ UNCHANGED quOthers

\* A receive that is ready only while the queue is empty, as it would be with
\* a buffer of one place.
QueueInReadyWhenEmpty == quCaller = "sending" /\ quQueue = <<>>

\* The case v, ok := <-in is ready when a caller is blocked in in <- v.
QueueInReady == quCaller = "sending"

\* A queue that puts the new value in front.
QueuePushFront(queue, v) == <<v>> \o queue

\* queue = append(queue, v)
QueuePush(queue, v) == Append(queue, v)

\* A receive from in that still happens after the goroutine has returned.
QueueReceiveAfterReturn ==
    /\ quPc \in {"select", "exited"}
    /\ QueueInReady
    /\ quQueue' = QueuePush(quQueue, quV)
    /\ quCaller' = "idle"
    /\ quPc' = quPc
    /\ UNCHANGED <<quDone, quNext, quOutNil, quV, quCalled, quReceived,
                   quOutClosed>>
    /\ UNCHANGED quOthers

\* select, case v, ok := <-in: the value goes to the end of the queue and the
\* caller's enqueue returns.  (Nothing closes in, so ok is always true.)
QueueReceive ==
    /\ quPc = "select"
    /\ QueueInReady
    /\ quQueue' = QueuePush(quQueue, quV)
    /\ quCaller' = "idle"
    /\ quPc' = "top"
    /\ UNCHANGED <<quDone, quNext, quOutNil, quV, quCalled, quReceived,
                   quOutClosed>>
    /\ UNCHANGED quOthers

\* select, case outCh <- next: the consumer receives next, and
\* queue = queue[1:].
QueueSend ==
    /\ quPc = "select"
    /\ ~quOutNil
    /\ quReceived' = Append(quReceived, quNext)
    /\ quQueue' = Tail(quQueue)
    /\ quPc' = "top"
    /\ UNCHANGED <<quDone, quNext, quOutNil, quCaller, quV, quCalled,
                   quOutClosed>>
    /\ UNCHANGED quOthers

\* The steps Queue's goroutine takes without a consumer.
QueueStep ==
    \/ QueueLoopTop
    \/ QueueSelectDone
    \/ QueueReceive

QueueNext ==
    \/ QueueCloseDone
    \/ \E v \in QueueValues : QueueEnqueue(v)
    \/ QueueStep
    \/ QueueSend

(***************************************************************************)
(* WorkerPool with Submit called from another goroutine, before or while   *)
(* Stop runs.                                                              *)
(***************************************************************************)
\* Submit(task) at any time: the select sends the task when taskCh has room,
\* or takes case <-p.quit, which leaves the task out, once quit is closed.
SubmitConcurrent ==
    /\ wpMainPc # "off"
    /\ wpSubmitted < MaxTasks
    /\ \/ /\ Len(wpTaskCh) < TaskChCap
          /\ wpTaskCh' = Append(wpTaskCh, wpSubmitted + 1)
       \/ /\ wpQuit
          /\ UNCHANGED wpTaskCh
    /\ wpSubmitted' = wpSubmitted + 1
    /\ UNCHANGED <<wpMainPc, wpWorkers, wpStartI, wpTaskChClosed, wpQuit, wpWg,
                   wpW, wpTask, wpExecuted>>
    /\ UNCHANGED wpOthers

\* The steps of worker w.
WorkerStep(w) ==
    \/ WorkerSelectTask(w)
    \/ WorkerSelectQuit(w)
    \/ WorkerExecute(w)
    \/ WorkerDrain(w)

WorkerPoolSubmitNext ==
    \/ WorkerPoolNext
    \/ SubmitConcurrent

(***************************************************************************)
(* CircuitBreaker.  Callers run Call, each call with an fn of its own;     *)
(* time is a clock that only moves forward.  cbLog records the calls in    *)
(* the order they return: "rejected" without fn, "ok" or "fail" by fn's    *)
(* result.                                                                 *)
(***************************************************************************)
StateClosed == 0
StateOpen == 1
StateHalfOpen == 2

CbMaxFailures == 2
CbMaxTimeout == 1
CbMaxTime == 2
CbMaxCalls == 4

Callers == {1, 2}

\* What an fn returns: nil, or one of its errors.
NoError == "nil"
FnErrors == {"http error", "server error"}
ErrOpen == "circuit breaker is open"

\* NewCircuitBreaker(maxFailures, timeout)
CircuitBreakerInit ==
    /\ cbMaxFailures \in 0..CbMaxFailures
    /\ cbTimeout \in 0..CbMaxTimeout
    /\ cbState = StateClosed
    /\ cbFailures = 0
    /\ cbLastFailTime = 0
    /\ cbMu = 0
    /\ cbNow = 0
    /\ cbPc = [c \in Callers |-> "idle"]
    /\ cbErr = [c \in Callers |-> NoError]
    /\ cbRet = [c \in Callers |-> NoError]
    /\ cbLog = <<>>

CircuitBreakerParked ==
    /\ cbMaxFailures = 0
    /\ cbTimeout = 0
    /\ cbState = StateClosed
    /\ cbFailures = 0
    /\ cbLastFailTime = 0
    /\ cbMu = 0
    /\ cbNow = 0
    /\ cbPc = [c \in Callers |-> "off"]
    /\ cbErr = [c \in Callers |-> NoError]
    /\ cbRet = [c \in Callers |-> NoError]
    /\ cbLog = <<>>

\* Time passes.
Tick ==
    /\ \E c \in Callers : cbPc[c] # "off"
    /\ cbNow < CbMaxTime
    /\ cbNow' = cbNow + 1
    /\ UNCHANGED <<cbMaxFailures, cbTimeout, cbState, cbFailures,
                   cbLastFailTime, cbMu, cbPc, cbErr, cbRet, cbLog>>
    /\ UNCHANGED cbOthers

\* The calls begun so far.
CallsBegun == Len(cbLog) + Cardinality({c \in Callers : cbPc[c] # "idle"})

\* Call begins: cb.mu.Lock(), which waits while another caller holds mu.
CallLock(c) ==
    /\ cbPc[c] = "idle"
    /\ CallsBegun < CbMaxCalls
    /\ cbMu = 0
    /\ cbMu' = c
    /\ cbPc' = [cbPc EXCEPT ![c] = "check"]
    /\ UNCHANGED <<cbMaxFailures, cbTimeout, cbState, cbFailures,
                   cbLastFailTime, cbNow, cbErr, cbRet, cbLog>>
    /\ UNCHANGED cbOthers

\* A rejection that also restarts the timeout.
CallRejectRestarts(c) ==
    /\ cbRet' = [cbRet EXCEPT ![c] = ErrOpen]
    /\ cbPc' = [cbPc EXCEPT ![c] = "idle"]
    /\ cbLog' = Append(cbLog, "rejected")
    /\ cbLastFailTime' = cbNow
    /\ UNCHANGED <<cbState, cbFailures>>

\* cb.mu.Unlock(); return errors.New("circuit breaker is open")
CallReject(c) ==
    /\ cbRet' = [cbRet EXCEPT ![c] = ErrOpen]
    /\ cbPc' = [cbPc EXCEPT ![c] = "idle"]
    /\ cbLog' = Append(cbLog, "rejected")
    /\ UNCHANGED <<cbState, cbFailures, cbLastFailTime>>

\* time.Since(cb.lastFailTime) > cb.timeout
TimedOut == cbNow - cbLastFailTime > cbTimeout

\* The switch on cb.state, under the lock: an Open breaker becomes HalfOpen
\* after the timeout and rejects the call before that; then cb.mu.Unlock().
CallCheck(c) ==
    /\ cbPc[c] = "check"
    /\ IF cbState = StateOpen /\ ~TimedOut
       THEN CallReject(c)
       ELSE /\ cbState' = IF cbState = StateOpen THEN StateHalfOpen ELSE cbState
            /\ cbPc' = [cbPc EXCEPT ![c] = "fn"]
            /\ UNCHANGED <<cbFailures, cbLastFailTime, cbRet, cbLog>>
    /\ cbMu' = 0
    /\ UNCHANGED <<cbMaxFailures, cbTimeout, cbNow, cbErr>>
    /\ UNCHANGED cbOthers

\* err := fn()
CallFn(c, err) ==
    /\ cbPc[c] = "fn"
    /\ cbErr' = [cbErr EXCEPT ![c] = err]
    /\ cbPc' = [cbPc EXCEPT ![c] = "lock"]
    /\ UNCHANGED <<cbMaxFailures, cbTimeout, cbState, cbFailures,
                   cbLastFailTime, cbMu, cbNow, cbRet, cbLog>>
    /\ UNCHANGED cbOthers

\* The second cb.mu.Lock()
CallRelock(c) ==
    /\ cbPc[c] = "lock"
    /\ cbMu = 0
    /\ cbMu' = c
    /\ cbPc' = [cbPc EXCEPT ![c] = "update"]
    /\ UNCHANGED <<cbMaxFailures, cbTimeout, cbState, cbFailures,
                   cbLastFailTime, cbNow, cbErr, cbRet, cbLog>>
    /\ UNCHANGED cbOthers

\* A breaker that opens one failure late.
CallTripsLate(failures, maxFailures) == failures > maxFailures

\* A breaker that opens at every failure.
CallTripsAlways(failures, maxFailures) == TRUE

\* cb.failures >= cb.maxFailures
CallTrips(failures, maxFailures) == failures >= maxFailures

\* err != nil: cb.failures++, cb.lastFailTime = time.Now(), the breaker opens
\* when the failures reach maxFailures, return err.
CallFailed(c) ==
    /\ cbFailures' = cbFailures + 1
    /\ cbLastFailTime' = cbNow
    /\ cbState' = IF CallTrips(cbFailures + 1, cbMaxFailures) THEN StateOpen
                  ELSE cbState
    /\ cbRet' = [cbRet EXCEPT ![c] = cbErr[c]]
    /\ cbLog' = Append(cbLog, "fail")

\* A success that closes the breaker and keeps the failures.
CallSucceededKeepsCount(c) ==
    /\ cbState' = StateClosed
    /\ cbRet' = [cbRet EXCEPT ![c] = NoError]
    /\ cbLog' = Append(cbLog, "ok")
    /\ UNCHANGED <<cbFailures, cbLastFailTime>>

\* err == nil: cb.failures = 0, cb.state = StateClosed, return nil.
CallSucceeded(c) ==
    /\ cbFailures' = 0
    /\ cbState' = StateClosed
    /\ cbRet' = [cbRet EXCEPT ![c] = NoError]
    /\ cbLog' = Append(cbLog, "ok")
    /\ UNCHANGED cbLastFailTime

\* The rest of Call, under the lock, with the deferred cb.mu.Unlock().
CallUpdate(c) ==
    /\ cbPc[c] = "update"
    /\ IF cbErr[c] # NoError THEN CallFailed(c) ELSE CallSucceeded(c)
    /\ cbMu' = 0
    /\ cbPc' = [cbPc EXCEPT ![c] = "idle"]
    /\ UNCHANGED <<cbMaxFailures, cbTimeout, cbNow, cbErr>>
    /\ UNCHANGED cbOthers

\* Call begins while no other call is running.
CallLockAlone(c) ==
    /\ \A d \in Callers : cbPc[d] = "idle"
    /\ CallLock(c)

\* Calls from any number of goroutines.
CircuitBreakerNext ==
    \/ Tick
    \/ \E c \in Callers : CallLock(c)
    \/ \E c \in Callers : CallCheck(c)
    \/ \E c \in Callers : \E err \in FnErrors \cup {NoError} : CallFn(c, err)
    \/ \E c \in Callers : CallRelock(c)
    \/ \E c \in Callers : CallUpdate(c)

\* Calls one at a time.
CircuitBreakerSequentialNext ==
    \/ Tick
    \/ \E c \in Callers : CallLockAlone(c)
    \/ \E c \in Callers : CallCheck(c)
    \/ \E c \in Callers : \E err \in FnErrors \cup {NoError} : CallFn(c, err)
    \/ \E c \in Callers : CallRelock(c)
    \/ \E c \in Callers : CallUpdate(c)

(***************************************************************************)
(* RateLimiter.  rlTokens is the number of tokens in the tokens channel,   *)
(* rlTick whether a tick waits in the ticker's channel (which holds one).  *)
(***************************************************************************)
RlMaxBurst == 2

RlCallers == {1, 2}

\* NewRateLimiter(rate, burst) has made the ticker and the tokens channel.
RateLimiterInit ==
    /\ rlPc = "fill"
    /\ rlBurst \in 0..RlMaxBurst
    /\ rlI = 0
    /\ rlTokens = 0
    /\ rlTick = FALSE
    /\ rlRefill = "none"
    /\ rlCall = [c \in RlCallers |-> "idle"]
    /\ rlCtxDone = [c \in RlCallers |-> FALSE]
    /\ rlRet = [c \in RlCallers |-> "none"]

RateLimiterParked ==
    /\ rlPc = "off"
    /\ rlBurst = 0
    /\ rlI = 0
    /\ rlTokens = 0
    /\ rlTick = FALSE
    /\ rlRefill = "none"
    /\ rlCall = [c \in RlCallers |-> "idle"]
    /\ rlCtxDone = [c \in RlCallers |-> FALSE]
    /\ rlRet = [c \in RlCallers |-> "none"]

\* Fill initial tokens: one iteration, rl.tokens <- struct{}{}
RlFill ==
    /\ rlPc = "fill"
    /\ rlI < rlBurst
    /\ rlTokens' = rlTokens + 1
    /\ rlI' = rlI + 1
    /\ UNCHANGED <<rlPc, rlBurst, rlTick, rlRefill, rlCall, rlCtxDone, rlRet>>
    /\ UNCHANGED rlOthers

\* The fill loop ends; go func() { ... }(); return rl
RlReturn ==
    /\ rlPc = "fill"
    /\ rlI = rlBurst
    /\ rlPc' = "ready"
    /\ rlRefill' = "range"
    /\ UNCHANGED <<rlBurst, rlI, rlTokens, rlTick, rlCall, rlCtxDone, rlRet>>
    /\ UNCHANGED rlOthers

\* The ticker fires: the tick goes to ticker.C, or is dropped when the
\* previous tick is still there.
RlTickerFire ==
    /\ rlPc \in {"fill", "ready"}
    /\ rlTick' = TRUE
    /\ UNCHANGED <<rlPc, rlBurst, rlI, rlTokens, rlRefill, rlCall, rlCtxDone,
                   rlRet>>
    /\ UNCHANGED rlOthers

\* for range rl.ticker.C: the refill goroutine receives a tick.
RlRefillRange ==
    /\ rlRefill = "range"
    /\ rlTick
    /\ rlTick' = FALSE
    /\ rlRefill' = "select"
    /\ UNCHANGED <<rlPc, rlBurst, rlI, rlTokens, rlCall, rlCtxDone, rlRet>>
    /\ UNCHANGED rlOthers

\* A send that is also ready on a full channel.
RlHasRoomWhenFull(tokens, burst) == tokens <= burst

\* A send on the buffered tokens channel is ready while it holds fewer than
\* burst tokens.
RlHasRoom(tokens, burst) == tokens < burst

\* select, case rl.tokens <- struct{}{}: the token goes into the buffer.
RlRefillSend ==
    /\ rlRefill = "select"
    /\ RlHasRoom(rlTokens, rlBurst)
    /\ rlTokens' = rlTokens + 1
    /\ rlRefill' = "range"
    /\ UNCHANGED <<rlPc, rlBurst, rlI, rlTick, rlCall, rlCtxDone, rlRet>>
    /\ UNCHANGED rlOthers

\* A caller is blocked receiving from tokens.
RlReceiving(c) == rlCall[c] \in {"wait", "waitContext"}

\* select, case rl.tokens <- struct{}{}: with an empty buffer the token goes
\* straight to a caller blocked in Wait or WaitContext, which returns.
RlRefillHandOff(c) ==
    /\ rlRefill = "select"
    /\ rlTokens = 0
    /\ RlReceiving(c)
    /\ rlRet' = [rlRet EXCEPT ![c] = "nil"]
    /\ rlCall' = [rlCall EXCEPT ![c] = "idle"]
    /\ rlRefill' = "range"
    /\ UNCHANGED <<rlPc, rlBurst, rlI, rlTokens, rlTick, rlCtxDone>>
    /\ UNCHANGED rlOthers

\* select, default: the send is not ready and the token is discarded.
RlRefillDefault ==
    /\ rlRefill = "select"
    /\ ~RlHasRoom(rlTokens, rlBurst)
    /\ \A c \in RlCallers : ~(rlTokens = 0 /\ RlReceiving(c))
    /\ rlRefill' = "range"
    /\ UNCHANGED <<rlPc, rlBurst, rlI, rlTokens, rlTick, rlCall, rlCtxDone,
                   rlRet>>
    /\ UNCHANGED rlOthers

\* The steps of the refill goroutine after it received a tick.
RlRefillSelect ==
    \/ RlRefillSend
    \/ \E c \in RlCallers : RlRefillHandOff(c)
    \/ RlRefillDefault

\* rl.Wait() is called.
RlWaitCall(c) ==
    /\ rlPc = "ready"
    /\ rlCall[c] = "idle"
    /\ rlCall' = [rlCall EXCEPT ![c] = "wait"]
    /\ rlRet' = [rlRet EXCEPT ![c] = "none"]
    /\ UNCHANGED <<rlPc, rlBurst, rlI, rlTokens, rlTick, rlRefill, rlCtxDone>>
    /\ UNCHANGED rlOthers

\* rl.WaitContext(ctx) is called, with a ctx that is done already or not.
RlWaitContextCall(c, done) ==
    /\ rlPc = "ready"
    /\ rlCall[c] = "idle"
    /\ rlCall' = [rlCall EXCEPT ![c] = "waitContext"]
    /\ rlCtxDone' = [rlCtxDone EXCEPT ![c] = done]
    /\ rlRet' = [rlRet EXCEPT ![c] = "none"]
    /\ UNCHANGED <<rlPc, rlBurst, rlI, rlTokens, rlTick, rlRefill>>
    /\ UNCHANGED rlOthers

\* The caller's ctx is cancelled or reaches its deadline.
RlCtxCancel(c) ==
    /\ rlCall[c] = "waitContext"
    /\ ~rlCtxDone[c]
    /\ rlCtxDone' = [rlCtxDone EXCEPT ![c] = TRUE]
    /\ UNCHANGED <<rlPc, rlBurst, rlI, rlTokens, rlTick, rlRefill, rlCall,
                   rlRet>>
    /\ UNCHANGED rlOthers

\* <-rl.tokens, in Wait or in WaitContext (return nil): a token leaves the
\* buffer.
RlTakeToken(c) ==
    /\ RlReceiving(c)
    /\ rlTokens > 0
    /\ rlTokens' = rlTokens - 1
    /\ rlRet' = [rlRet EXCEPT ![c] = "nil"]
    /\ rlCall' = [rlCall EXCEPT ![c] = "idle"]
    /\ UNCHANGED <<rlPc, rlBurst, rlI, rlTick, rlRefill, rlCtxDone>>
    /\ UNCHANGED rlOthers

\* WaitContext, case <-ctx.Done(): return ctx.Err()
RlCtxDoneReturn(c) ==
    /\ rlCall[c] = "waitContext"
    /\ rlCtxDone[c]
    /\ rlRet' = [rlRet EXCEPT ![c] = "ctx.Err()"]
    /\ rlCall' = [rlCall EXCEPT ![c] = "idle"]
    /\ UNCHANGED <<rlPc, rlBurst, rlI, rlTokens, rlTick, rlRefill, rlCtxDone>>
    /\ UNCHANGED rlOthers

RateLimiterNext ==
    \/ RlFill
    \/ RlReturn
    \/ RlTickerFire
    \/ RlRefillRange
    \/ RlRefillSelect
    \/ \E c \in RlCallers : RlWaitCall(c)
    \/ \E c \in RlCallers : \E done \in BOOLEAN : RlWaitContextCall(c, done)
    \/ \E c \in RlCallers : RlCtxCancel(c)
    \/ \E c \in RlCallers : RlTakeToken(c)
    \/ \E c \in RlCallers : RlCtxDoneReturn(c)

(***************************************************************************)
(* workerPool (plans/05-concurrency-fundamentals.md).  A producer sends    *)
(* the jobs 1, 2, ... and may close jobs; a consumer receives from         *)
(* results.  jpResults records the results sent.                           *)
(***************************************************************************)
JpMaxWorkers == 2
JpMaxJobs == 3

JpWorkers == 1..JpMaxWorkers

\* process(job)
process(job) == [of |-> job]

\* workerPool(jobs, results, workers) is called.
JobPoolInit ==
    /\ jpPc = "loop"
    /\ jpN \in 0..JpMaxWorkers
    /\ jpI = 0
    /\ jpWg = 0
    /\ jpW = [w \in JpWorkers |-> "none"]
    /\ jpJob = [w \in JpWorkers |-> 0]
    /\ jpJobs = <<>>
    /\ jpProduced = 0
    /\ jpJobsClosed = FALSE
    /\ jpResults = <<>>
    /\ jpCloser = "none"
    /\ jpCloses = 0
    /\ jpPanic = FALSE

JobPoolParked ==
    /\ jpPc = "off"
    /\ jpN = 0
    /\ jpI = 0
    /\ jpWg = 0
    /\ jpW = [w \in JpWorkers |-> "none"]
    /\ jpJob = [w \in JpWorkers |-> 0]
    /\ jpJobs = <<>>
    /\ jpProduced = 0
    /\ jpJobsClosed = FALSE
    /\ jpResults = <<>>
    /\ jpCloser = "none"
    /\ jpCloses = 0
    /\ jpPanic = FALSE

\* The owner of jobs sends the next job.
JobsProduce ==
    /\ jpPc # "off"
    /\ ~jpJobsClosed
    /\ jpProduced < JpMaxJobs
    /\ jpJobs' = Append(jpJobs, jpProduced + 1)
    /\ jpProduced' = jpProduced + 1
    /\ UNCHANGED <<jpPc, jpN, jpI, jpWg, jpW, jpJob, jpJobsClosed, jpResults,
                   jpCloser, jpCloses, jpPanic>>
    /\ UNCHANGED jpOthers

\* The owner of jobs closes it.
JobsClose ==
    /\ jpPc # "off"
    /\ ~jpJobsClosed
    /\ jpJobsClosed' = TRUE
    /\ UNCHANGED <<jpPc, jpN, jpI, jpWg, jpW, jpJob, jpJobs, jpProduced,
                   jpResults, jpCloser, jpCloses, jpPanic>>
    /\ UNCHANGED jpOthers

\* One iteration of the loop: wg.Add(1); go func() { ... }()
JobPoolSpawn ==
    /\ jpPc = "loop"
    /\ jpI < jpN
    /\ jpWg' = jpWg + 1
    /\ jpW' = [jpW EXCEPT ![jpI + 1] = "range"]
    /\ jpI' = jpI + 1
    /\ UNCHANGED <<jpPc, jpN, jpJob, jpJobs, jpProduced, jpJobsClosed,
                   jpResults, jpCloser, jpCloses, jpPanic>>
    /\ UNCHANGED jpOthers

\* The loop ends; the closing goroutine is started and workerPool returns.
JobPoolReturn ==
    /\ jpPc = "loop"
    /\ jpI >= jpN
    /\ jpCloser' = "wait"
    /\ jpPc' = "returned"
    /\ UNCHANGED <<jpN, jpI, jpWg, jpW, jpJob, jpJobs, jpProduced,
                   jpJobsClosed, jpResults, jpCloses, jpPanic>>
    /\ UNCHANGED jpOthers

\* for job := range jobs: the worker receives a job, or leaves the loop when
\* jobs is closed and empty; then the deferred wg.Done() runs.
JobWorkerRange(w) ==
    /\ jpW[w] = "range"
    /\ IF jpJobs # <<>>
       THEN /\ jpJob' = [jpJob EXCEPT ![w] = Head(jpJobs)]
            /\ jpJobs' = Tail(jpJobs)
            /\ jpW' = [jpW EXCEPT ![w] = "send"]
            /\ UNCHANGED jpWg
       ELSE /\ jpJobsClosed
            /\ jpWg' = jpWg - 1
            /\ jpW' = [jpW EXCEPT ![w] = "exited"]
            /\ UNCHANGED <<jpJob, jpJobs>>
    /\ UNCHANGED <<jpPc, jpN, jpI, jpProduced, jpJobsClosed, jpResults,
                   jpCloser, jpCloses, jpPanic>>
    /\ UNCHANGED jpOthers

\* results <- process(job), received by the consumer; a send on a closed
\* channel panics.
JobWorkerSend(w) ==
    /\ jpW[w] = "send"
    /\ IF jpCloses > 0
       THEN /\ jpPanic' = TRUE
            /\ UNCHANGED jpResults
       ELSE /\ jpResults' = Append(jpResults, process(jpJob[w]))
            /\ UNCHANGED jpPanic
    /\ jpW' = [jpW EXCEPT ![w] = "range"]
    /\ UNCHANGED <<jpPc, jpN, jpI, jpWg, jpJob, jpJobs, jpProduced,
                   jpJobsClosed, jpCloser, jpCloses>>
    /\ UNCHANGED jpOthers

\* A closing goroutine that does not wait for the workers.
JobCloserNoWait ==
    /\ jpCloser = "wait"
    /\ jpCloser' = "close"
    /\ UNCHANGED <<jpPc, jpN, jpI, jpWg, jpW, jpJob, jpJobs, jpProduced,
                   jpJobsClosed, jpResults, jpCloses, jpPanic>>
    /\ UNCHANGED jpOthers

\* wg.Wait() returns once the counter is zero.
JobCloserWait ==
    /\ jpCloser = "wait"
    /\ jpWg = 0
    /\ jpCloser' = "close"
    /\ UNCHANGED <<jpPc, jpN, jpI, jpWg, jpW, jpJob, jpJobs, jpProduced,
                   jpJobsClosed, jpResults, jpCloses, jpPanic>>
    /\ UNCHANGED jpOthers

\* close(results)
JobCloserClose ==
    /\ jpCloser = "close"
    /\ jpCloses' = jpCloses + 1
    /\ jpCloser' = "done"
    /\ UNCHANGED <<jpPc, jpN, jpI, jpWg, jpW, jpJob, jpJobs, jpProduced,
                   jpJobsClosed, jpResults, jpPanic>>
    /\ UNCHANGED jpOthers

\* The steps of worker w.
JobWorkerStep(w) == JobWorkerRange(w) \/ JobWorkerSend(w)

\* The steps of workerPool itself and of the closing goroutine.
JobPoolStep ==
    \/ JobPoolSpawn
    \/ JobPoolReturn
    \/ JobCloserWait
    \/ JobCloserClose

JobPoolNext ==
    \/ JobsProduce
    \/ JobsClose
    \/ JobPoolStep
    \/ \E w \in JpWorkers : JobWorkerStep(w)

(***************************************************************************)
(* withTimeout (plans/05-concurrency-fundamentals.md).  Time is a clock    *)
(* that only moves forward; slowOperation returns at any moment, with a    *)
(* result or with an error.                                                *)
(***************************************************************************)
WtChanCap == 1
WtMaxTimeout == 2
WtMaxTime == 3
WtMaxResult == 2

WtResults == 1..WtMaxResult
WtErrors == {"slow operation failed"}
WtNone == [result |-> 0, err |-> "nil"]

\* What slowOperation can return: a result with a nil error, or an error.
WtOutcomes ==
    {[result |-> r, err |-> "nil"] : r \in WtResults}
        \cup {[result |-> 0, err |-> e] : e \in WtErrors}

\* withTimeout(timeout) is called and has made resultCh and errCh.
WithTimeoutInit ==
    /\ wtPc = "go"
    /\ wtTimeout \in 0..WtMaxTimeout
    /\ wtNow = 0
    /\ wtDeadline = 0
    /\ wtGo = "none"
    /\ wtOut = WtNone
    /\ wtResultCh = <<>>
    /\ wtErrCh = <<>>
    /\ wtRet = WtNone

WithTimeoutParked ==
    /\ wtPc = "off"
    /\ wtTimeout = 0
    /\ wtNow = 0
    /\ wtDeadline = 0
    /\ wtGo = "none"
    /\ wtOut = WtNone
    /\ wtResultCh = <<>>
    /\ wtErrCh = <<>>
    /\ wtRet = WtNone

\* Time passes.
WtTick ==
    /\ wtPc # "off"
    /\ wtNow < WtMaxTime
    /\ wtNow' = wtNow + 1
    /\ UNCHANGED <<wtPc, wtTimeout, wtDeadline, wtGo, wtOut, wtResultCh,
                   wtErrCh, wtRet>>
    /\ UNCHANGED wtOthers

\* go func() { ... }(): the goroutine starts slowOperation.
WtSpawn ==
    /\ wtPc = "go"
    /\ wtGo' = "slowOperation"
    /\ wtPc' = "enter"
    /\ UNCHANGED <<wtTimeout, wtNow, wtDeadline, wtOut, wtResultCh, wtErrCh,
                   wtRet>>
    /\ UNCHANGED wtOthers

\* The select is entered: time.After(timeout) starts its timer.
WtEnterSelect ==
    /\ wtPc = "enter"
    /\ wtDeadline' = wtNow + wtTimeout
    /\ wtPc' = "select"
    /\ UNCHANGED <<wtTimeout, wtNow, wtGo, wtOut, wtResultCh, wtErrCh, wtRet>>
    /\ UNCHANGED wtOthers

\* result, err := slowOperation()
slowOperation(out) ==
    /\ wtGo = "slowOperation"
    /\ wtOut' = out
    /\ wtGo' = "send"
    /\ UNCHANGED <<wtPc, wtTimeout, wtNow, wtDeadline, wtResultCh, wtErrCh,
                   wtRet>>
    /\ UNCHANGED wtOthers

\* A send on an unbuffered channel: ready only while the caller is in its
\* select.
WtSendReadyUnbuffered(ch) == wtPc = "select"

\* A send on a channel made with capacity 1 is ready while the buffer has
\* room.
WtSendReady(ch) == Len(ch) < WtChanCap

\* if err != nil { errCh <- err; return }; resultCh <- result
WtGoSend ==
    /\ wtGo = "send"
    /\ IF wtOut.err # "nil"
       THEN /\ WtSendReady(wtErrCh)
            /\ wtErrCh' = Append(wtErrCh, wtOut.err)
            /\ UNCHANGED wtResultCh
       ELSE /\ WtSendReady(wtResultCh)
            /\ wtResultCh' = Append(wtResultCh, wtOut.result)
            /\ UNCHANGED wtErrCh
    /\ wtGo' = "exited"
    /\ UNCHANGED <<wtPc, wtTimeout, wtNow, wtDeadline, wtOut, wtRet>>
    /\ UNCHANGED wtOthers

\* case result := <-resultCh: return result, nil
WtSelectResult ==
    /\ wtPc = "select"
    /\ wtResultCh # <<>>
    /\ wtRet' = [result |-> Head(wtResultCh), err |-> "nil"]
    /\ wtResultCh' = Tail(wtResultCh)
    /\ wtPc' = "returned"
    /\ UNCHANGED <<wtTimeout, wtNow, wtDeadline, wtGo, wtOut, wtErrCh>>
    /\ UNCHANGED wtOthers

\* case err := <-errCh: return Result{}, err
WtSelectErr ==
    /\ wtPc = "select"
    /\ wtErrCh # <<>>
    /\ wtRet' = [result |-> 0, err |-> Head(wtErrCh)]
    /\ wtErrCh' = Tail(wtErrCh)
    /\ wtPc' = "returned"
    /\ UNCHANGED <<wtTimeout, wtNow, wtDeadline, wtGo, wtOut, wtResultCh>>
    /\ UNCHANGED wtOthers

\* case <-time.After(timeout): return Result{}, errors.New("timeout")
WtSelectTimeout ==
    /\ wtPc = "select"
    /\ wtNow >= wtDeadline
    /\ wtRet' = [result |-> 0, err |-> "timeout"]
    /\ wtPc' = "returned"
    /\ UNCHANGED <<wtTimeout, wtNow, wtDeadline, wtGo, wtOut, wtResultCh,
                   wtErrCh>>
    /\ UNCHANGED wtOthers

WithTimeoutNext ==
    \/ WtTick
    \/ WtSpawn
    \/ WtEnterSelect
    \/ \E out \in WtOutcomes : slowOperation(out)
    \/ WtGoSend
    \/ WtSelectResult
    \/ WtSelectErr
    \/ WtSelectTimeout

(***************************************************************************)
(* TimeoutMiddleware (unnamed/part_002).  The wrapped handler is any       *)
(* handler: it writes to the ResponseWriter some number of times and       *)
(* returns.  tmWrites records who wrote, in the order the writes ended;    *)
(* tmInWrite is the set of parties inside a write.                         *)
(***************************************************************************)
TmMaxWrites == 2
TmMaxTimeout == 2
TmMaxTime == 2

\* The handler is called at time 0: ctx, cancel :=
\* context.WithTimeout(r.Context(), timeout), done := make(chan struct{}).
TimeoutMiddlewareInit ==
    /\ tmPc = "go"
    /\ tmTimeout \in 0..TmMaxTimeout
    /\ tmNow = 0
    /\ tmNext = "none"
    /\ tmNextWrites = 0
    /\ tmCtxDone = FALSE
    /\ tmDone = FALSE
    /\ tmWrites = <<>>
    /\ tmInWrite = {}

TimeoutMiddlewareParked ==
    /\ tmPc = "off"
    /\ tmTimeout = 0
    /\ tmNow = 0
    /\ tmNext = "none"
    /\ tmNextWrites = 0
    /\ tmCtxDone = FALSE
    /\ tmDone = FALSE
    /\ tmWrites = <<>>
    /\ tmInWrite = {}

\* Time passes.
TmTick ==
    /\ tmPc # "off"
    /\ tmNow < TmMaxTime
    /\ tmNow' = tmNow + 1
    /\ UNCHANGED <<tmPc, tmTimeout, tmNext, tmNextWrites, tmCtxDone, tmDone,
                   tmWrites, tmInWrite>>
    /\ UNCHANGED tmOthers

\* The deadline of ctx has come: ctx is done.
TmCtxDeadline ==
    /\ tmPc \in {"go", "select"}
    /\ ~tmCtxDone
    /\ tmNow >= tmTimeout
    /\ tmCtxDone' = TRUE
    /\ UNCHANGED <<tmPc, tmTimeout, tmNow, tmNext, tmNextWrites, tmDone,
                   tmWrites, tmInWrite>>
    /\ UNCHANGED tmOthers

\* The request's own context is cancelled, which ends ctx too.
TmRequestCancel ==
    /\ tmPc \in {"go", "select"}
    /\ ~tmCtxDone
    /\ tmNow < tmTimeout
    /\ tmCtxDone' = TRUE
    /\ UNCHANGED <<tmPc, tmTimeout, tmNow, tmNext, tmNextWrites, tmDone,
                   tmWrites, tmInWrite>>
    /\ UNCHANGED tmOthers

\* go func() { next.ServeHTTP(w, r.WithContext(ctx)); close(done) }()
TmSpawn ==
    /\ tmPc = "go"
    /\ tmNext' = "running"
    /\ tmPc' = "select"
    /\ UNCHANGED <<tmTimeout, tmNow, tmNextWrites, tmCtxDone, tmDone, tmWrites,
                   tmInWrite>>
    /\ UNCHANGED tmOthers

\* next.ServeHTTP starts a write to w.
TmNextWriteBegin ==
    /\ tmNext = "running"
    /\ tmNextWrites < TmMaxWrites
    /\ tmNext' = "writing"
    /\ tmNextWrites' = tmNextWrites + 1
    /\ tmInWrite' = tmInWrite \cup {"next"}
    /\ UNCHANGED <<tmPc, tmTimeout, tmNow, tmCtxDone, tmDone, tmWrites>>
    /\ UNCHANGED tmOthers

\* next.ServeHTTP ends that write.
TmNextWriteEnd ==
    /\ tmNext = "writing"
    /\ tmNext' = "running"
    /\ tmInWrite' = tmInWrite \ {"next"}
    /\ tmWrites' = Append(tmWrites, "next")
    /\ UNCHANGED <<tmPc, tmTimeout, tmNow, tmNextWrites, tmCtxDone, tmDone>>
    /\ UNCHANGED tmOthers

\* next.ServeHTTP returns; close(done)
TmNextReturn ==
    /\ tmNext = "running"
    /\ tmNext' = "returned"
    /\ tmDone' = TRUE
    /\ UNCHANGED <<tmPc, tmTimeout, tmNow, tmNextWrites, tmCtxDone, tmWrites,
                   tmInWrite>>
    /\ UNCHANGED tmOthers

\* select, case <-done: the handler returns, and the deferred cancel() runs.
TmSelectDone ==
    /\ tmPc = "select"
    /\ tmDone
    /\ tmPc' = "returned"
    /\ tmCtxDone' = TRUE
    /\ UNCHANGED <<tmTimeout, tmNow, tmNext, tmNextWrites, tmDone, tmWrites,
                   tmInWrite>>
    /\ UNCHANGED tmOthers

\* select, case <-ctx.Done(): http.Error(w, "request timeout", 408) starts
\* to write.
TmSelectCtxDone ==
    /\ tmPc = "select"
    /\ tmCtxDone
    /\ tmPc' = "reply"
    /\ tmInWrite' = tmInWrite \cup {"timeout"}
    /\ UNCHANGED <<tmTimeout, tmNow, tmNext, tmNextWrites, tmCtxDone, tmDone,
                   tmWrites>>
    /\ UNCHANGED tmOthers

\* http.Error has written; the handler returns, and the deferred cancel()
\* runs.
TmReplyEnd ==
    /\ tmPc = "reply"
    /\ tmPc' = "returned"
    /\ tmInWrite' = tmInWrite \ {"timeout"}
    /\ tmWrites' = Append(tmWrites, "timeout")
    /\ UNCHANGED <<tmTimeout, tmNow, tmNext, tmNextWrites, tmCtxDone, tmDone>>
    /\ UNCHANGED tmOthers

TimeoutMiddlewareNext ==
    \/ TmTick
    \/ TmCtxDeadline
    \/ TmRequestCancel
    \/ TmSpawn
    \/ TmNextWriteBegin
    \/ TmNextWriteEnd
    \/ TmNextReturn
    \/ TmSelectDone
    \/ TmSelectCtxDone
    \/ TmReplyEnd

(***************************************************************************)
(* AuthMiddleware and ParseToken (unnamed/part_002).  A string is the      *)
(* sequence of its characters.  A token of the jwt library is written as   *)
(* three characters: the user id in its claims, the key it was signed      *)
(* with, and "v" while it is in date or "x" once it has expired; every     *)
(* other string is malformed.                                              *)
(***************************************************************************)
StatusUnauthorized == 401

Bearer == <<"B", "e", "a", "r", "e", "r", " ">>

AuthUsers == {"1", "2"}
AuthSecrets == {"k", "q"}
NoClaims == [UserID |-> "none"]

\* The strings that are tokens, and two that are not.
TokenStrings ==
    {<<u, k, d>> : u \in AuthUsers, k \in AuthSecrets, d \in {"v", "x"}}
        \cup {<<"z">>, <<>>}

\* The Authorization headers of the requests: none, the token with the
\* prefix "Bearer ", without it, with the prefix twice, and with another
\* prefix.
AuthHeaders ==
    {Bearer \o t : t \in TokenStrings}
        \cup TokenStrings
        \cup {Bearer \o Bearer \o t : t \in TokenStrings}
        \cup {<<"B">> \o t : t \in TokenStrings}

\* strings.TrimPrefix(s, prefix)
TrimPrefix(s, prefix) ==
    IF Len(s) >= Len(prefix) /\ SubSeq(s, 1, Len(prefix)) = prefix
    THEN SubSeq(s, Len(prefix) + 1, Len(s))
    ELSE s

\* jwt.ParseWithClaims(tokenString, &Claims{}, keyFunc) with keyFunc giving
\* secret: an error for a malformed token, a wrong signature or an expired
\* token, and otherwise a valid token with its claims.
ParseWithClaims(tokenString, secret) ==
    IF Len(tokenString) # 3 THEN [err |-> "malformed", valid |-> FALSE, claims |-> NoClaims]
    ELSE IF tokenString[2] # secret
    THEN [err |-> "signature is invalid", valid |-> FALSE,
          claims |-> [UserID |-> tokenString[1]]]
    ELSE IF tokenString[3] # "v"
    THEN [err |-> "token is expired", valid |-> FALSE,
          claims |-> [UserID |-> tokenString[1]]]
    ELSE [err |-> "nil", valid |-> TRUE, claims |-> [UserID |-> tokenString[1]]]

\* The three returns of ParseToken, from the library's answer.
ParseTokenReturn(token) ==
    IF token.err # "nil" THEN [claims |-> NoClaims, err |-> token.err]
    ELSE IF token.valid THEN [claims |-> token.claims, err |-> "nil"]
    ELSE [claims |-> NoClaims, err |-> "invalid token"]

\* A ParseToken that does not look at the signature.
ParseTokenAnyKey(tokenString, secret) ==
    IF Len(tokenString) = 3
    THEN ParseTokenReturn(ParseWithClaims(tokenString, tokenString[2]))
    ELSE ParseTokenReturn(ParseWithClaims(tokenString, secret))

\* func ParseToken(tokenString, secret string) (*Claims, error)
ParseToken(tokenString, secret) ==
    ParseTokenReturn(ParseWithClaims(tokenString, secret))

\* A request arrives at the handler made by AuthMiddleware(secret)(next).
AuthMiddlewareInit ==
    /\ auPc = "header"
    /\ auSecret \in AuthSecrets
    /\ auHeader \in AuthHeaders
    /\ auStatus = 0
    /\ auBody = ""
    /\ auUser = NoClaims
    /\ auNextCalls = 0
    /\ auNextUser = NoClaims

AuthMiddlewareParked ==
    /\ auPc = "off"
    /\ auSecret = "k"
    /\ auHeader = <<>>
    /\ auStatus = 0
    /\ auBody = ""
    /\ auUser = NoClaims
    /\ auNextCalls = 0
    /\ auNextUser = NoClaims

\* authHeader := r.Header.Get("Authorization"); an empty header is answered
\* with 401 "unauthorized".
AuthCheckHeader ==
    /\ auPc = "header"
    /\ IF auHeader = <<>>
       THEN /\ auStatus' = StatusUnauthorized
            /\ auBody' = "unauthorized"
            /\ auPc' = "returned"
       ELSE /\ auPc' = "parse"
            /\ UNCHANGED <<auStatus, auBody>>
    /\ UNCHANGED <<auSecret, auHeader, auUser, auNextCalls, auNextUser>>
    /\ UNCHANGED auOthers

\* The outcome of ParseToken: 401 "invalid token" on an error, and otherwise
\* ctx := context.WithValue(r.Context(), "user", claims).
AuthParsed(r) ==
    IF r.err # "nil"
    THEN /\ auStatus' = StatusUnauthorized
         /\ auBody' = "invalid token"
         /\ auPc' = "returned"
         /\ UNCHANGED auUser
    ELSE /\ auUser' = r.claims
         /\ auPc' = "next"
         /\ UNCHANGED <<auStatus, auBody>>

\* tokenString := strings.TrimPrefix(authHeader, "Bearer ");
\* claims, err := ParseToken(tokenString, secret)
AuthParse ==
    /\ auPc = "parse"
    /\ AuthParsed(ParseToken(TrimPrefix(auHeader, Bearer), auSecret))
    /\ UNCHANGED <<auSecret, auHeader, auNextCalls, auNextUser>>
    /\ UNCHANGED auOthers

\* next.ServeHTTP(w, r.WithContext(ctx))
AuthNext ==
    /\ auPc = "next"
    /\ auNextCalls' = auNextCalls + 1
    /\ auNextUser' = auUser
    /\ auPc' = "returned"
    /\ UNCHANGED <<auSecret, auHeader, auStatus, auBody, auUser>>
    /\ UNCHANGED auOthers

AuthMiddlewareNext ==
    \/ AuthCheckHeader
    \/ AuthParse
    \/ AuthNext

(***************************************************************************)
(* WithRetry (plans/04-error-handling.md).  An error value says whether    *)
(* errors.As finds a net.Error in it and what that error's Timeout() is;   *)
(* wrLog records what the calls of fn returned.                            *)
(***************************************************************************)
WrMaxAttempts == 3

NilErr == [kind |-> "nil"]

WrMaxErrors == 2

\* What fn can return: nil, or one of a few errors of each sort: a network
\* timeout, another network error, an error that is no net.Error.
WrFnResults ==
    {NilErr} \cup
    {[kind |-> "err", net |-> TRUE, timeout |-> t, id |-> e] :
        t \in BOOLEAN, e \in 1..WrMaxErrors} \cup
    {[kind |-> "err", net |-> FALSE, timeout |-> FALSE, id |-> e] :
        e \in 1..WrMaxErrors}

\* !errors.As(err, &netErr) || !netErr.Timeout() is false
Retryable(err) == err.net /\ err.timeout

\* fmt.Errorf("after %d attempts: %w", maxAttempts, lastErr)
AfterAttempts(maxAttempts, lastErr) ==
    [kind |-> "wrapped", attempts |-> maxAttempts, wraps |-> lastErr]

\* WithRetry(fn, maxAttempts) is called: var lastErr error; i := 0
WithRetryInit ==
    /\ wrPc = "loop"
    /\ wrMax \in (-1)..WrMaxAttempts
    /\ wrI = 0
    /\ wrLastErr = NilErr
    /\ wrLog = <<>>
    /\ wrSlept = 0
    /\ wrRet = [kind |-> "none"]

WithRetryParked ==
    /\ wrPc = "off"
    /\ wrMax = 0
    /\ wrI = 0
    /\ wrLastErr = NilErr
    /\ wrLog = <<>>
    /\ wrSlept = 0
    /\ wrRet = [kind |-> "none"]

\* A loop that makes one attempt more.
WrLoopOneMore(i, maxAttempts) == i <= maxAttempts

\* i < maxAttempts
WrLoop(i, maxAttempts) == i < maxAttempts

\* One iteration of the loop up to the sleep: err := fn(), return nil on
\* success, lastErr = err, return err when it is not retryable.
WrAttempt(err) ==
    /\ wrPc = "loop"
    /\ WrLoop(wrI, wrMax)
    /\ wrLog' = Append(wrLog, err)
    /\ IF err = NilErr
       THEN /\ wrRet' = NilErr
            /\ wrPc' = "returned"
            /\ UNCHANGED wrLastErr
       ELSE /\ wrLastErr' = err
            /\ IF Retryable(err)
               THEN /\ wrPc' = "sleep"
                    /\ UNCHANGED wrRet
               ELSE /\ wrRet' = err
                    /\ wrPc' = "returned"
    /\ UNCHANGED <<wrMax, wrI, wrSlept>>
    /\ UNCHANGED wrOthers

\* time.Sleep(time.Second * time.Duration(i+1)); i++
WrSleep ==
    /\ wrPc = "sleep"
    /\ wrSlept' = wrSlept + (wrI + 1)
    /\ wrI' = wrI + 1
    /\ wrPc' = "loop"
    /\ UNCHANGED <<wrMax, wrLastErr, wrLog, wrRet>>
    /\ UNCHANGED wrOthers

\* The loop has ended: return fmt.Errorf("after %d attempts: %w", ...)
WrGiveUp ==
    /\ wrPc = "loop"
    /\ ~WrLoop(wrI, wrMax)
    /\ wrRet' = AfterAttempts(wrMax, wrLastErr)
    /\ wrPc' = "returned"
    /\ UNCHANGED <<wrMax, wrI, wrLastErr, wrLog, wrSlept>>
    /\ UNCHANGED wrOthers

WithRetryNext ==
    \/ \E err \in WrFnResults : WrAttempt(err)
    \/ WrSleep
    \/ WrGiveUp

(***************************************************************************)
(* Specifications: one program runs, the others stay parked.               *)
(***************************************************************************)
FizzBuzzStart ==
    /\ FizzBuzzInit /\ AddParked /\ TempParked /\ DivideParked
    /\ ApplyParked /\ CounterParked /\ WorkerPoolParked /\ IdGeneratorParked
    /\ OrDoneParked /\ TeeParked /\ QueueParked /\ CircuitBreakerParked
    /\ RateLimiterParked /\ JobPoolParked /\ WithTimeoutParked
    /\ TimeoutMiddlewareParked /\ AuthMiddlewareParked /\ WithRetryParked
SpecFizzBuzz == FizzBuzzStart /\ [][FizzBuzzNext]_vars

AddStart ==
    /\ FizzBuzzParked /\ AddInit /\ TempParked /\ DivideParked
    /\ ApplyParked /\ CounterParked /\ WorkerPoolParked /\ IdGeneratorParked
    /\ OrDoneParked /\ TeeParked /\ QueueParked /\ CircuitBreakerParked
    /\ RateLimiterParked /\ JobPoolParked /\ WithTimeoutParked
    /\ TimeoutMiddlewareParked /\ AuthMiddlewareParked /\ WithRetryParked
SpecAdd == AddStart /\ [][FuzzAddNext]_vars

TempStart ==
    /\ FizzBuzzParked /\ AddParked /\ TempInit /\ DivideParked
    /\ ApplyParked /\ CounterParked /\ WorkerPoolParked /\ IdGeneratorParked
    /\ OrDoneParked /\ TeeParked /\ QueueParked /\ CircuitBreakerParked
    /\ RateLimiterParked /\ JobPoolParked /\ WithTimeoutParked
    /\ TimeoutMiddlewareParked /\ AuthMiddlewareParked /\ WithRetryParked
SpecTemp == TempStart /\ [][TempNext]_vars

DivideStart ==
    /\ FizzBuzzParked /\ AddParked /\ TempParked /\ DivideInit
    /\ ApplyParked /\ CounterParked /\ WorkerPoolParked /\ IdGeneratorParked
    /\ OrDoneParked /\ TeeParked /\ QueueParked /\ CircuitBreakerParked
    /\ RateLimiterParked /\ JobPoolParked /\ WithTimeoutParked
    /\ TimeoutMiddlewareParked /\ AuthMiddlewareParked /\ WithRetryParked
SpecDivide == DivideStart /\ [][DivideNext]_vars

ApplyStart ==
    /\ FizzBuzzParked /\ AddParked /\ TempParked /\ DivideParked
    /\ ApplyInit /\ CounterParked /\ WorkerPoolParked /\ IdGeneratorParked
    /\ OrDoneParked /\ TeeParked /\ QueueParked /\ CircuitBreakerParked
    /\ RateLimiterParked /\ JobPoolParked /\ WithTimeoutParked
    /\ TimeoutMiddlewareParked /\ AuthMiddlewareParked /\ WithRetryParked
SpecApply == ApplyStart /\ [][ApplyNext]_vars

CounterStart ==
    /\ FizzBuzzParked /\ AddParked /\ TempParked /\ DivideParked
    /\ ApplyParked /\ CounterInit /\ WorkerPoolParked /\ IdGeneratorParked
    /\ OrDoneParked /\ TeeParked /\ QueueParked /\ CircuitBreakerParked
    /\ RateLimiterParked /\ JobPoolParked /\ WithTimeoutParked
    /\ TimeoutMiddlewareParked /\ AuthMiddlewareParked /\ WithRetryParked
SpecCounter == CounterStart /\ [][CounterNext]_vars

WorkerPoolStart ==
    /\ FizzBuzzParked /\ AddParked /\ TempParked /\ DivideParked
    /\ ApplyParked /\ CounterParked /\ WorkerPoolInit /\ IdGeneratorParked
    /\ OrDoneParked /\ TeeParked /\ QueueParked /\ CircuitBreakerParked
    /\ RateLimiterParked /\ JobPoolParked /\ WithTimeoutParked
    /\ TimeoutMiddlewareParked /\ AuthMiddlewareParked /\ WithRetryParked
SpecWorkerPool == WorkerPoolStart /\ [][WorkerPoolNext]_vars

\* The scheduler runs a goroutine that can take a step: the pool does not
\* stand still while some step is possible.
SpecWorkerPoolFair == SpecWorkerPool /\ WF_vars(WorkerPoolNext)

\* Submit may also be called from another goroutine, at any time.
SpecWorkerPoolSubmit == WorkerPoolStart /\ [][WorkerPoolSubmitNext]_vars

\* The scheduler runs every worker that can take a step.
SpecWorkerPoolSubmitFair ==
    SpecWorkerPoolSubmit /\ \A w \in Workers : WF_vars(WorkerStep(w))

IdGeneratorStart ==
    /\ FizzBuzzParked /\ AddParked /\ TempParked /\ DivideParked
    /\ ApplyParked /\ CounterParked /\ WorkerPoolParked /\ IdGeneratorInit
    /\ OrDoneParked /\ TeeParked /\ QueueParked /\ CircuitBreakerParked
    /\ RateLimiterParked /\ JobPoolParked /\ WithTimeoutParked
    /\ TimeoutMiddlewareParked /\ AuthMiddlewareParked /\ WithRetryParked
SpecIdGenerator == IdGeneratorStart /\ [][IdGeneratorNext]_vars

OrDoneStart ==
    /\ FizzBuzzParked /\ AddParked /\ TempParked /\ DivideParked
    /\ ApplyParked /\ CounterParked /\ WorkerPoolParked /\ IdGeneratorParked
    /\ OrDoneInit /\ TeeParked /\ QueueParked /\ CircuitBreakerParked
    /\ RateLimiterParked /\ JobPoolParked /\ WithTimeoutParked
    /\ TimeoutMiddlewareParked /\ AuthMiddlewareParked /\ WithRetryParked
SpecOrDone == OrDoneStart /\ [][OrDoneNext]_vars

\* The scheduler runs OrDone's goroutine whenever it can take a step.
SpecOrDoneFair == SpecOrDone /\ WF_vars(OrDoneStep)

TeeStart ==
    /\ FizzBuzzParked /\ AddParked /\ TempParked /\ DivideParked
    /\ ApplyParked /\ CounterParked /\ WorkerPoolParked /\ IdGeneratorParked
    /\ OrDoneParked /\ TeeInit /\ QueueParked /\ CircuitBreakerParked
    /\ RateLimiterParked /\ JobPoolParked /\ WithTimeoutParked
    /\ TimeoutMiddlewareParked /\ AuthMiddlewareParked /\ WithRetryParked
SpecTee == TeeStart /\ [][TeeNext]_vars

QueueStart ==
    /\ FizzBuzzParked /\ AddParked /\ TempParked /\ DivideParked
    /\ ApplyParked /\ CounterParked /\ WorkerPoolParked /\ IdGeneratorParked
    /\ OrDoneParked /\ TeeParked /\ QueueInit /\ CircuitBreakerParked
    /\ RateLimiterParked /\ JobPoolParked /\ WithTimeoutParked
    /\ TimeoutMiddlewareParked /\ AuthMiddlewareParked /\ WithRetryParked
SpecQueue == QueueStart /\ [][QueueNext]_vars

\* The scheduler runs Queue's goroutine whenever it can take a step; nothing
\* is assumed of the consumer.
SpecQueueFair == SpecQueue /\ WF_vars(QueueStep)

CircuitBreakerStart ==
    /\ FizzBuzzParked /\ AddParked /\ TempParked /\ DivideParked
    /\ ApplyParked /\ CounterParked /\ WorkerPoolParked /\ IdGeneratorParked
    /\ OrDoneParked /\ TeeParked /\ QueueParked /\ CircuitBreakerInit
    /\ RateLimiterParked /\ JobPoolParked /\ WithTimeoutParked
    /\ TimeoutMiddlewareParked /\ AuthMiddlewareParked /\ WithRetryParked
SpecCircuitBreaker == CircuitBreakerStart /\ [][CircuitBreakerNext]_vars

\* The calls of the breaker run one after another.
SpecCircuitBreakerSequential ==
    CircuitBreakerStart /\ [][CircuitBreakerSequentialNext]_vars

RateLimiterStart ==
    /\ FizzBuzzParked /\ AddParked /\ TempParked /\ DivideParked
    /\ ApplyParked /\ CounterParked /\ WorkerPoolParked /\ IdGeneratorParked
    /\ OrDoneParked /\ TeeParked /\ QueueParked /\ CircuitBreakerParked
    /\ RateLimiterInit /\ JobPoolParked /\ WithTimeoutParked
    /\ TimeoutMiddlewareParked /\ AuthMiddlewareParked /\ WithRetryParked
SpecRateLimiter == RateLimiterStart /\ [][RateLimiterNext]_vars

JobPoolStart ==
    /\ FizzBuzzParked /\ AddParked /\ TempParked /\ DivideParked
    /\ ApplyParked /\ CounterParked /\ WorkerPoolParked /\ IdGeneratorParked
    /\ OrDoneParked /\ TeeParked /\ QueueParked /\ CircuitBreakerParked
    /\ RateLimiterParked /\ JobPoolInit /\ WithTimeoutParked
    /\ TimeoutMiddlewareParked /\ AuthMiddlewareParked /\ WithRetryParked
SpecJobPool == JobPoolStart /\ [][JobPoolNext]_vars

\* The scheduler runs workerPool, the closing goroutine and every worker
\* whenever they can take a step, and the consumer receives from results.
SpecJobPoolFair ==
    SpecJobPool /\ WF_vars(JobPoolStep)
        /\ \A w \in JpWorkers : WF_vars(JobWorkerStep(w))

WithTimeoutStart ==
    /\ FizzBuzzParked /\ AddParked /\ TempParked /\ DivideParked
    /\ ApplyParked /\ CounterParked /\ WorkerPoolParked /\ IdGeneratorParked
    /\ OrDoneParked /\ TeeParked /\ QueueParked /\ CircuitBreakerParked
    /\ RateLimiterParked /\ JobPoolParked /\ WithTimeoutInit
    /\ TimeoutMiddlewareParked /\ AuthMiddlewareParked /\ WithRetryParked
SpecWithTimeout == WithTimeoutStart /\ [][WithTimeoutNext]_vars

\* The scheduler runs the goroutine when it can send.
SpecWithTimeoutFair == SpecWithTimeout /\ WF_vars(WtGoSend)

TimeoutMiddlewareStart ==
    /\ FizzBuzzParked /\ AddParked /\ TempParked /\ DivideParked
    /\ ApplyParked /\ CounterParked /\ WorkerPoolParked /\ IdGeneratorParked
    /\ OrDoneParked /\ TeeParked /\ QueueParked /\ CircuitBreakerParked
    /\ RateLimiterParked /\ JobPoolParked /\ WithTimeoutParked
    /\ TimeoutMiddlewareInit /\ AuthMiddlewareParked /\ WithRetryParked
SpecTimeoutMiddleware == TimeoutMiddlewareStart /\ [][TimeoutMiddlewareNext]_vars

AuthMiddlewareStart ==
    /\ FizzBuzzParked /\ AddParked /\ TempParked /\ DivideParked
    /\ ApplyParked /\ CounterParked /\ WorkerPoolParked /\ IdGeneratorParked
    /\ OrDoneParked /\ TeeParked /\ QueueParked /\ CircuitBreakerParked
    /\ RateLimiterParked /\ JobPoolParked /\ WithTimeoutParked
    /\ TimeoutMiddlewareParked /\ AuthMiddlewareInit /\ WithRetryParked
SpecAuthMiddleware == AuthMiddlewareStart /\ [][AuthMiddlewareNext]_vars

WithRetryStart ==
    /\ FizzBuzzParked /\ AddParked /\ TempParked /\ DivideParked
    /\ ApplyParked /\ CounterParked /\ WorkerPoolParked /\ IdGeneratorParked
    /\ OrDoneParked /\ TeeParked /\ QueueParked /\ CircuitBreakerParked
    /\ RateLimiterParked /\ JobPoolParked /\ WithTimeoutParked
    /\ TimeoutMiddlewareParked /\ AuthMiddlewareParked /\ WithRetryInit
SpecWithRetry == WithRetryStart /\ [][WithRetryNext]_vars

\* All the programs: any one of them runs.
Init ==
    \/ FizzBuzzStart
    \/ AddStart
    \/ TempStart
    \/ DivideStart
    \/ ApplyStart
    \/ CounterStart
    \/ WorkerPoolStart
    \/ IdGeneratorStart
    \/ OrDoneStart
    \/ TeeStart
    \/ QueueStart
    \/ CircuitBreakerStart
    \/ RateLimiterStart
    \/ JobPoolStart
    \/ WithTimeoutStart
    \/ TimeoutMiddlewareStart
    \/ AuthMiddlewareStart
    \/ WithRetryStart

Next ==
    \/ FizzBuzzNext
    \/ FuzzAddNext
    \/ TempNext
    \/ DivideNext
    \/ ApplyNext
    \/ CounterNext
    \/ WorkerPoolNext
    \/ IdGeneratorNext
    \/ OrDoneNext
    \/ TeeNext
    \/ QueueNext
    \/ CircuitBreakerNext
    \/ RateLimiterNext
    \/ JobPoolNext
    \/ WithTimeoutNext
    \/ TimeoutMiddlewareNext
    \/ AuthMiddlewareNext
    \/ WithRetryNext

Spec == Init /\ [][Next]_vars

----------------------------------------------------------------------------
(***************************************************************************)
(* Properties of FizzBuzz                                                  *)
(***************************************************************************)
\* d divides n, stated without the remainder operator.
Divides(d, n) == \E k \in (-FizzRange - 1)..(FizzRange + 1) : n = d * k

DigitValue(c) == CHOOSE d \in 0..9 : DigitChars[d + 1] = c

RECURSIVE DigitsValue(_)
DigitsValue(s) ==
    IF s = <<>> THEN 0
    ELSE 10 * DigitsValue(SubSeq(s, 1, Len(s) - 1)) + DigitValue(s[Len(s)])

IsDigits(s) ==
    /\ Len(s) >= 1
    /\ \A i \in 1..Len(s) : \E d \in 0..9 : DigitChars[d + 1] = s[i]
    /\ (Len(s) > 1 => s[1] # "0")

\* s is the decimal rendering of n: an optional minus sign, digits without a
\* leading zero, and the digits read back give n.
IsDecimalOf(s, n) ==
    IF n < 0
    THEN /\ Len(s) >= 2
         /\ s[1] = "-"
         /\ IsDigits(Tail(s))
         /\ DigitsValue(Tail(s)) = -n
    ELSE /\ IsDigits(s)
         /\ DigitsValue(s) = n

\* C1: FizzBuzz(n) returns "FizzBuzz" when 15 divides n, otherwise "Fizz"
\* when 3 divides n, otherwise "Buzz" when 5 divides n, otherwise the decimal
\* rendering of n.
C1_FizzBuzzResult ==
    fbPc = "done" =>
        IF Divides(15, fbN) THEN fbResult = StrFizzBuzz
        ELSE IF Divides(3, fbN) THEN fbResult = StrFizz
        ELSE IF Divides(5, fbN) THEN fbResult = StrBuzz
        ELSE IsDecimalOf(fbResult, fbN)

C1_Witness == fbPc = "done" /\ fbN = 15 /\ fbResult = StrFizzBuzz

\* C2: wasModified is true exactly when n is divisible by 3 or by 5 (the
\* result is a word) and false exactly when the result is the decimal
\* rendering of n.
C2_WasModified ==
    fbPc = "done" =>
        /\ fbWasModified <=> (Divides(3, fbN) \/ Divides(5, fbN))
        /\ fbWasModified <=> fbResult \in {StrFizzBuzz, StrFizz, StrBuzz}
        /\ ~fbWasModified <=> IsDecimalOf(fbResult, fbN)

C2_Witness == fbPc = "done" /\ fbN = -7 /\ ~fbWasModified /\ fbResult = <<"-", "7">>

(***************************************************************************)
(* Properties of TempConvertor                                             *)
(***************************************************************************)
\* The same number: equal as float64 values, or both not a number.
SameFloat(a, b) == (IsNaN(a) /\ IsNaN(b)) \/ FEq(a, b)

\* |a - b| < 2^x, for finite a and b.
DiffBelow(a, b, x) ==
    IF IsZero(a) /\ IsZero(b) THEN TRUE
    ELSE IF IsZero(a) THEN TopExp(b) <= x
    ELSE IF IsZero(b) THEN TopExp(a) <= x
    ELSE LET d == AlignedSum(a, FNeg(b))
         IN  BitLen(d.m) = 0 \/ TopExp(d) <= x

\* Equal up to rounding: the same number, or finite and less than 2^-40 apart.
Close(a, b) ==
    \/ SameFloat(a, b)
    \/ a.k = "fin" /\ b.k = "fin" /\ DiffBelow(a, b, -40)

\* temp comes back unchanged in the slot of the input unit.
InputSlotKept ==
    /\ tcMode = Celsius => SameFloat(tcCelsius, tcTemp)
    /\ tcMode = Fahrenheit => SameFloat(tcFahrenheit, tcTemp)
    /\ tcMode = Kelvin => SameFloat(tcKelvin, tcTemp)

\* celsius * 9/5 + 32 in float64, rounded after each operation or once.
FahrenheitOfCelsius == {MulAdd(tcCelsius, NineOverFive, Lit32, f) : f \in BOOLEAN}

\* fahrenheit = celsius * 9/5 + 32, exactly.
FahrenheitEquation == \E f \in FahrenheitOfCelsius : SameFloat(tcFahrenheit, f)

\* kelvin = celsius + 273.15, exactly.
KelvinEquation == SameFloat(tcKelvin, FAdd(tcCelsius, Lit273_15))

\* C3 as stated: for every temp and every mode in {Celsius, Fahrenheit,
\* Kelvin}, temp is returned unchanged in the slot of the input unit and the
\* outputs satisfy fahrenheit = celsius * 9/5 + 32 and
\* kelvin = celsius + 273.15.
C3_SameTemperature ==
    (tcPc = "done" /\ tcMode \in {Celsius, Fahrenheit, Kelvin}) =>
        InputSlotKept /\ FahrenheitEquation /\ KelvinEquation

\* C3 as amended: temp is returned unchanged in the slot of the input unit;
\* fahrenheit = celsius * 9/5 + 32 holds exactly in modes Celsius and Kelvin,
\* kelvin = celsius + 273.15 holds exactly in mode Celsius and, when the
\* multiply-add is not fused, in mode Fahrenheit; in the remaining cases the
\* two sides are equal only up to rounding (less than 2^-40 apart on the
\* temperatures checked).  TempConvertor(0, Celsius) yields (0, 32, 273.15).
C3_SameTemperatureUpToRounding ==
    (tcPc = "done" /\ tcMode \in {Celsius, Fahrenheit, Kelvin}) =>
        /\ InputSlotKept
        /\ tcMode \in {Celsius, Kelvin} => FahrenheitEquation
        /\ tcMode = Celsius => KelvinEquation
        /\ (tcMode = Fahrenheit /\ ~tcFused) => KelvinEquation
        /\ \A f \in FahrenheitOfCelsius : Close(tcFahrenheit, f)
        /\ Close(tcKelvin, FAdd(tcCelsius, Lit273_15))
        /\ (tcMode = Celsius /\ tcTemp = FloatOf(0)) =>
              /\ tcCelsius = FloatOf(0)
              /\ tcFahrenheit = FloatOf(32)
              /\ tcKelvin = Lit273_15

C3_Witness ==
    /\ tcPc = "done"
    /\ tcMode = Celsius
    /\ tcTemp = FloatOf(0)
    /\ tcCelsius = FloatOf(0)
    /\ tcFahrenheit = FloatOf(32)
    /\ tcKelvin = Lit273_15

\* C29: for every mode other than Celsius, Fahrenheit and Kelvin,
\* TempConvertor returns (0, 0, 0) whatever temp is, a NaN or an infinity
\* included; the three float64 results are all the caller gets.
C29_UnknownModeReturnsZeros ==
    (tcPc = "done" /\ tcMode \notin {Celsius, Fahrenheit, Kelvin}) =>
        /\ tcCelsius = FloatOf(0)
        /\ tcFahrenheit = FloatOf(0)
        /\ tcKelvin = FloatOf(0)

\* TempConvertor(NaN, 3) has returned (0, 0, 0).
C29_Witness ==
    /\ tcPc = "done"
    /\ tcMode = Kelvin + 1
    /\ tcTemp = NaN
    /\ tcCelsius = FloatOf(0)
    /\ tcFahrenheit = FloatOf(0)
    /\ tcKelvin = FloatOf(0)

(***************************************************************************)
(* Properties of divide and Divide                                         *)
(***************************************************************************)
\* The divisor of the call is 0: every bit of the int is 0, or the float64 is
\* a zero of either sign.
DivisorIsZero ==
    IF dvFn = "divide" THEN \A i \in 1..IntSize : dvB[i] = 0
    ELSE dvY.k = "fin" /\ \A i \in 1..MantBits : dvY.m[i] = 0

\* C5: the returned error is non-nil exactly when b is 0.
C5_ErrorIffZeroDivisor == dvPc = "done" => (~dvErr.isNil <=> DivisorIsZero)

C5_Witness ==
    /\ dvPc = "done"
    /\ dvFn = "Divide"
    /\ dvX = FloatOf(1)
    /\ dvY = FloatOf(0)
    /\ ~dvErr.isNil

\* C6: when the divisor is 0 the function returns early: the result is the
\* zero value 0, returned together with the error.
C6_ZeroResultOnError ==
    (dvPc = "done" /\ DivisorIsZero) => (dvResult = FloatOf(0) /\ ~dvErr.isNil)

(***************************************************************************)
(* Properties of Add                                                       *)
(***************************************************************************)
\* C7: for a >= 0 and b >= 0, Add(a, b) is never smaller than a.
C7_AddNeverSmaller ==
    addPc = "done" =>
        (~IsNegative(addA) /\ ~IsNegative(addB) => ~IntLess(addResult, addA))

\* C8: Add(a, b) equals Add(b, a), also when the sum overflows.
C8_AddCommutative == addPc = "done" => addSwapped = addResult

\* A pair whose sum overflows: MaxInt + (MaxInt - 1) wraps to -3, both ways
\* round.
C8_Witness ==
    /\ addPc = "done"
    /\ addA = MaxIntMinus(0)
    /\ addB = MaxIntMinus(1)
    /\ addResult = IntOf(-3)
    /\ addSwapped = IntOf(-3)

(***************************************************************************)
(* Properties of apply                                                     *)
(***************************************************************************)
\* C10: apply returns a slice of the same length as nums whose i-th element
\* is fn(nums[i]) for every i, and nums itself is left unchanged.
C10_ApplyMaps ==
    /\ apNums = apArg
    /\ apPc = "done" =>
          /\ Len(apReturned) = Len(apArg)
          /\ \A i \in 1..Len(apArg) : apReturned[i] = ApplyFn(apFn, apArg[i])

C10_Witness ==
    /\ apPc = "done"
    /\ apFn = "square"
    /\ apArg = <<1, 2, -2>>
    /\ apNums = <<1, 2, -2>>
    /\ apReturned = <<1, 4, 4>>

(***************************************************************************)
(* Properties of the mutex-protected counter                               *)
(***************************************************************************)
\* C9: the value main prints is always the number of goroutines (1000 in the
\* source): no increment is lost and none is still pending when main reads
\* the counter.
C9_PrintsEveryIncrement == mcMainPc = "done" => mcOut = <<NumGoroutines>>

(***************************************************************************)
(* Properties of WorkerPool                                                *)
(***************************************************************************)
\* C4: after Start, a call to Stop (no Submit running) always eventually
\* returns.
C4_StopReturns == (wpMainPc = "waiting") ~> (wpMainPc = "returned")

(***************************************************************************)
(* Properties of idGenerator                                               *)
(***************************************************************************)
\* C11: the k-th call of a generator made by idGenerator(start) returns
\* start + k - 1 (in int arithmetic), whatever calls the other generator has
\* had: each generator's id depends on its own start and its own calls only.
C11_GeneratorCounts ==
    \A g \in Generators :
        /\ (igCreated[g] /\ igCalls[g] >= 1) =>
              igLast[g] = AddBits(igStart[g], IntOf(igCalls[g] - 1), 0)
        /\ igCreated[g] =>
              AddBits(igId[g], IntOf(1), 0) = AddBits(igStart[g], IntOf(igCalls[g]), 0)

\* main's generator, idGenerator(1), has returned 1 and then 2, while another
\* generator made from -1 has returned -1 in between.
C11_Witness ==
    /\ igCreated[1] /\ igStart[1] = IntOf(1) /\ igCalls[1] = 2 /\ igLast[1] = IntOf(2)
    /\ igCreated[2] /\ igStart[2] = IntOf(-1) /\ igCalls[2] = 1 /\ igLast[2] = IntOf(-1)

(***************************************************************************)
(* Properties of OrDone                                                    *)
(***************************************************************************)
\* C12: the returned channel is never closed while done and c are both open,
\* and once done is closed or c is closed it is eventually closed (the
\* consumer keeps receiving).
C12_ClosesWhenInputCloses ==
    /\ [](odValClosed => (odDone \/ odCClosed))
    /\ (odDone \/ odCClosed) ~> odValClosed

\* c was closed with values still to be received, done stayed open, and the
\* returned channel was closed after the consumer got every value.
C12_Witness ==
    /\ odValClosed
    /\ odCClosed
    /\ ~odDone
    /\ odOut = <<1, 2>>

(***************************************************************************)
(* Properties of Tee                                                       *)
(***************************************************************************)
\* s is an initial part of t.
IsPrefix(s, t) == Len(s) <= Len(t) /\ SubSeq(t, 1, Len(s)) = s

\* While done is open both consumers see the values of in, in its order, each
\* value once.
TeeSameSequence == IsPrefix(teOut1, teRead) /\ IsPrefix(teOut2, teRead)

\* C13 as stated: while done stays open, every value received from in is sent
\* once on out1 and once on out2 before the next value is read from in, and
\* both consumers observe the sequence of in.
C13_TeeSendsBeforeNextRead ==
    ~teDone =>
        /\ TeeSameSequence
        /\ Len(teRead) <= Len(teOut1) + 1
        /\ Len(teRead) <= Len(teOut2) + 1

\* C13 as amended: while done stays open, every value received from in is
\* sent once on out1 and once on out2 before the next value is sent on either
\* of them, and both consumers observe the sequence of in.  The values read
\* from in may be up to two ahead of a consumer: OrDone's goroutine reads the
\* next value while Tee is still sending the current one.
C13_TeeSendsBeforeNextSend ==
    ~teDone =>
        /\ TeeSameSequence
        /\ Len(teOut1) <= Len(teOut2) + 1
        /\ Len(teOut2) <= Len(teOut1) + 1
        /\ Len(teRead) <= Len(teOut1) + 2
        /\ Len(teRead) <= Len(teOut2) + 2

\* Both consumers have the three values of in, done still open.
C13_Witness ==
    /\ ~teDone
    /\ teRead = <<1, 2, 3>>
    /\ teOut1 = <<1, 2, 3>>
    /\ teOut2 = <<1, 2, 3>>

(***************************************************************************)
(* Properties of Queue                                                     *)
(***************************************************************************)
\* The values whose enqueue call has returned, in the order of the calls.
QueueAccepted ==
    IF quCaller = "sending" THEN SubSeq(quCalled, 1, Len(quCalled) - 1)
    ELSE quCalled

\* C14: while done stays open, the values received from out are the values
\* passed to enqueue, in the same order, none lost and none duplicated: what
\* was received, followed by what is still queued, is what was enqueued.
C14_QueueIsFifo ==
    ~quDone =>
        /\ quReceived \o quQueue = QueueAccepted
        /\ IsPrefix(quReceived, quCalled)
        /\ (quPc = "select" /\ ~quOutNil) => (quQueue # <<>> /\ quNext = quQueue[1])

\* Three values went through the queue in order, a repeated value included.
C14_Witness ==
    /\ ~quDone
    /\ quCalled = <<2, 1, 2>>
    /\ quReceived = <<2, 1, 2>>
    /\ quQueue = <<>>

\* C15: while done stays open, every call of enqueue eventually returns, even
\* if no consumer ever receives from out.
C15_EnqueueReturns ==
    (quCaller = "sending" /\ ~quDone) ~> (quCaller = "idle" \/ quDone)

\* Three calls of enqueue have returned and nothing was received from out.
C15_Witness ==
    /\ ~quDone
    /\ quCaller = "idle"
    /\ Len(quCalled) = QueueMaxCalls
    /\ quQueue = quCalled
    /\ quReceived = <<>>

\* C30: after done is closed and Queue's goroutine has returned, a call of
\* enqueue blocks forever: the goroutine stays returned, and a caller waiting
\* in in <- v keeps waiting.
C30_EnqueueBlocksAfterReturn ==
    /\ [](quPc = "exited" => (quDone /\ quOutClosed))
    /\ [][(quPc = "exited" /\ quCaller = "sending")
            => (quPc' = "exited" /\ quCaller' = "sending")]_vars
    /\ []((quPc = "exited" /\ quCaller = "sending")
            => ~ENABLED (QueueReceive \/ QueueLoopTop \/ QueueSend))

\* The goroutine has returned with one value still queued, and a later call
\* of enqueue is waiting.
C30_Witness ==
    /\ quPc = "exited"
    /\ quDone
    /\ quCaller = "sending"
    /\ Len(quCalled) = 2
    /\ Len(quQueue) = 1
    /\ quReceived = <<>>

(***************************************************************************)
(* Properties of WorkerPool with concurrent Submit                         *)
(***************************************************************************)
Tasks == 1..MaxTasks

\* The task is in taskCh.
TaskBuffered(t) == \E i \in 1..Len(wpTaskCh) : wpTaskCh[i] = t

\* A worker has received the task and has not yet executed it.
TaskHeld(t) ==
    \E w \in Workers : wpW[w] \in {"execute", "drainExecute"} /\ wpTask[w] = t

TaskExecuted(t) == \E i \in 1..Len(wpExecuted) : wpExecuted[i] = t

\* How many times the task is in taskCh, with a worker, or executed.
TaskCopies(t) ==
    Cardinality({i \in 1..Len(wpTaskCh) : wpTaskCh[i] = t})
    + Cardinality({w \in Workers :
                     wpW[w] \in {"execute", "drainExecute"} /\ wpTask[w] = t})
    + Cardinality({i \in 1..Len(wpExecuted) : wpExecuted[i] = t})

\* C16: in a pool with a started worker, every task that Submit placed on
\* taskCh is executed exactly once, the tasks still buffered when Stop closes
\* quit included: a task is never in two places or executed twice, a task in
\* taskCh or with a worker is never dropped, and it is eventually executed.
C16_TaskExecutedOnce ==
    /\ [](\A t \in Tasks : TaskCopies(t) <= 1)
    /\ [][\A t \in Tasks :
            (TaskBuffered(t) \/ TaskHeld(t) \/ TaskExecuted(t))
                => (TaskBuffered(t) \/ TaskHeld(t) \/ TaskExecuted(t))']_vars
    /\ \A t \in Tasks :
          (wpStartI >= 1 /\ TaskBuffered(t)) ~> TaskExecuted(t)

\* Stop closed quit with two tasks buffered, a third was placed after that,
\* and all three have been executed.
C16_Witness ==
    /\ wpQuit
    /\ wpWorkers >= 1
    /\ \E w \in Workers : wpW[w] = "drain"
    /\ Len(wpExecuted) = MaxTasks
    /\ \A t \in Tasks : TaskExecuted(t)

(***************************************************************************)
(* Properties of CircuitBreaker                                            *)
(***************************************************************************)
\* C17: a Call that finds the breaker Open with no more than timeout elapsed
\* since lastFailTime returns "circuit breaker is open" without invoking fn,
\* and leaves state, failures and lastFailTime as they were.
C17_OpenRejects ==
    [][\A c \in Callers :
          ( /\ cbPc[c] = "check"
            /\ cbState = StateOpen
            /\ cbNow - cbLastFailTime <= cbTimeout
            /\ cbPc'[c] # "check" )
          => ( /\ cbPc'[c] = "idle"
               /\ cbRet'[c] = ErrOpen
               /\ cbErr'[c] = cbErr[c]
               /\ cbState' = cbState
               /\ cbFailures' = cbFailures
               /\ cbLastFailTime' = cbLastFailTime )]_vars

\* A call was rejected exactly timeout after the last failure.
C17_Witness ==
    /\ cbTimeout = 1
    /\ cbState = StateOpen
    /\ cbNow - cbLastFailTime = cbTimeout
    /\ cbLog # <<>>
    /\ cbLog[Len(cbLog)] = "rejected"
    /\ \E c \in Callers : cbPc[c] = "idle" /\ cbRet[c] = ErrOpen

RECURSIVE Streak(_)
\* The failing calls of fn since the last successful call.
Streak(log) ==
    IF log = <<>> THEN 0
    ELSE IF log[Len(log)] = "ok" THEN 0
    ELSE IF log[Len(log)] = "fail"
         THEN 1 + Streak(SubSeq(log, 1, Len(log) - 1))
    ELSE Streak(SubSeq(log, 1, Len(log) - 1))

\* C18: with the calls one at a time and maxFailures = N >= 1, the breaker
\* is Closed while fewer than N consecutive calls have failed, and it leaves
\* Closed only for Open, and only at the N-th consecutive failing call.
C18_OpensAtNthFailure ==
    /\ []((cbMaxFailures >= 1 /\ cbState = StateClosed)
             => Streak(cbLog) < cbMaxFailures)
    /\ [][(cbMaxFailures >= 1 /\ cbState = StateClosed
             /\ cbState' # StateClosed)
            => ( /\ cbState' = StateOpen
                 /\ cbLog' = Append(cbLog, "fail")
                 /\ Streak(cbLog') = cbMaxFailures )]_vars
    /\ [][(cbMaxFailures >= 1 /\ cbState = StateClosed
             /\ cbLog' = Append(cbLog, "fail")
             /\ Streak(cbLog') = cbMaxFailures)
            => cbState' = StateOpen]_vars

\* With maxFailures = 2: a failure, a success, and then the two failures in a
\* row that open the breaker.
C18_Witness ==
    /\ cbMaxFailures = 2
    /\ cbLog = <<"fail", "ok", "fail", "fail">>
    /\ cbState = StateOpen

\* C19: a Call whose fn returns nil sets failures to 0 and state to Closed
\* and returns nil, whatever the state was; a Call whose fn fails returns
\* fn's error unchanged.
C19_SuccessCloses ==
    [][\A c \in Callers :
          (cbPc[c] = "update" /\ cbPc'[c] = "idle")
          => IF cbErr[c] = NoError
             THEN /\ cbFailures' = 0
                  /\ cbState' = StateClosed
                  /\ cbRet'[c] = NoError
             ELSE cbRet'[c] = cbErr[c]]_vars

\* With maxFailures = 1: a failure opened the breaker, a call was rejected,
\* and after the timeout a call succeeded and closed it again.
C19_Witness ==
    /\ cbMaxFailures = 1
    /\ cbLog = <<"fail", "rejected", "ok">>
    /\ cbState = StateClosed
    /\ cbFailures = 0
    /\ \E c \in Callers : cbPc[c] = "idle" /\ cbRet[c] = NoError
    /\ \E c \in Callers : cbRet[c] = ErrOpen

\* C20: under every interleaving of concurrent Calls, whenever the state is
\* Open or HalfOpen, failures is at least maxFailures.
C20_OpenMeansFailures ==
    (cbState \in {StateOpen, StateHalfOpen}) => (cbFailures >= cbMaxFailures)

\* Two calls run fn at the same time on a HalfOpen breaker.
C20_Witness ==
    /\ cbMaxFailures = 2
    /\ cbState = StateHalfOpen
    /\ \A c \in Callers : cbPc[c] = "fn"

(***************************************************************************)
(* Properties of CircuitBreaker under concurrent calls                     *)
(***************************************************************************)
\* C21: under every interleaving of concurrent Calls, an Open breaker leaves
\* Open only through the timeout check at the start of a Call (to HalfOpen,
\* with more than timeout elapsed since lastFailTime), and a Call that finds
\* it Open within the timeout starts no fn.
C21_LeavesOpenByTimeoutOnly ==
    /\ [][(cbState = StateOpen /\ cbState' # StateOpen)
            => ( /\ cbState' = StateHalfOpen
                 /\ cbNow - cbLastFailTime > cbTimeout
                 /\ \E c \in Callers : cbPc[c] = "check" /\ cbPc'[c] = "fn" )]_vars
    /\ [][\A c \in Callers :
            (cbState = StateOpen /\ cbNow - cbLastFailTime <= cbTimeout)
              => ~(cbPc[c] # "fn" /\ cbPc'[c] = "fn")]_vars

\* C22: while the breaker is HalfOpen, a Call that arrives while another Call
\* is executing fn does not run fn.
C22_OneTrialCall ==
    [][\A c \in Callers :
          ( /\ cbState = StateHalfOpen
            /\ cbPc[c] = "check"
            /\ \E d \in Callers \ {c} : cbPc[d] = "fn" )
          => cbPc'[c] # "fn"]_vars

(***************************************************************************)
(* Properties of RateLimiter                                               *)
(***************************************************************************)
\* C23: the tokens channel holds burst tokens when NewRateLimiter returns and
\* never more than burst after any ticks, Wait and WaitContext calls; a tick
\* that finds the bucket full is discarded, and the refill goroutine never
\* blocks in its select.
C23_TokensNeverExceedBurst ==
    /\ [](rlTokens <= rlBurst)
    /\ [][(rlPc = "fill" /\ rlPc' = "ready") => rlTokens' = rlBurst]_vars
    /\ [](rlRefill = "select" => ENABLED RlRefillSelect)
    /\ [][(rlRefill = "select" /\ rlBurst > 0 /\ rlTokens = rlBurst
             /\ rlRefill' # "select")
            => (rlRefill' = "range" /\ rlTokens' = rlTokens)]_vars

\* The refill goroutine has a tick in hand and the bucket is full, after a
\* call of Wait and a call of WaitContext took a token each.
C23_Witness ==
    /\ rlBurst = RlMaxBurst
    /\ rlTokens = rlBurst
    /\ rlRefill = "select"
    /\ rlRet[1] = "nil"
    /\ rlRet[2] = "ctx.Err()"

(***************************************************************************)
(* Properties of workerPool                                                *)
(***************************************************************************)
JpJobIds == 1..JpMaxJobs

\* The job has been received from jobs by a worker.
JobReceived(j) ==
    /\ j <= jpProduced
    /\ \A i \in 1..Len(jpJobs) : jpJobs[i] # j

\* The sends on results made for the job.
JobSends(j) ==
    Cardinality({i \in 1..Len(jpResults) : jpResults[i] = process(j)})

\* A worker holds the job and has not sent its result yet.
JobInHand(j) == \E w \in JpWorkers : jpW[w] = "send" /\ jpJob[w] = j

\* C24: every job received from jobs produces exactly one send on results;
\* results is closed once, and only after every worker has returned, so no
\* worker sends on a closed results; and once jobs is closed, with results
\* consumed, results is eventually closed.
C24_ResultsClosedAfterWorkers ==
    /\ [](\A j \in JpJobIds :
            /\ JobSends(j) <= 1
            /\ JobSends(j) = 1 => (JobReceived(j) /\ ~JobInHand(j))
            /\ JobReceived(j) => (JobSends(j) = 1 \/ JobInHand(j)))
    /\ [](jpCloses <= 1 /\ ~jpPanic)
    /\ [](jpCloses = 1 =>
            /\ jpPc = "returned"
            /\ \A w \in JpWorkers : jpW[w] \in {"none", "exited"}
            /\ \A w \in 1..jpN : jpW[w] = "exited")
    /\ (jpJobsClosed ~> (jpCloses = 1))

\* Two workers handled three jobs, all results were sent, and results is
\* closed.
C24_Witness ==
    /\ jpN = 2
    /\ Len(jpResults) = JpMaxJobs
    /\ \A j \in JpJobIds : JobSends(j) = 1
    /\ jpJob[1] # 0
    /\ jpJob[2] # 0
    /\ jpCloses = 1

(***************************************************************************)
(* Properties of withTimeout                                               *)
(***************************************************************************)
\* C25: the goroutine's single send on resultCh or errCh never blocks, so the
\* goroutine terminates once slowOperation has returned, also when the
\* caller has already returned on the timeout branch; and the caller returns
\* exactly one of slowOperation's result, its error, or the timeout error.
C25_GoroutineTerminates ==
    /\ [](wtGo = "send" => ENABLED WtGoSend)
    /\ [](Len(wtResultCh) + Len(wtErrCh) <= 1)
    /\ (wtGo = "send") ~> (wtGo = "exited")
    /\ [](wtPc = "returned" =>
            \/ /\ wtRet.err = "timeout"
               /\ wtRet.result = 0
               /\ wtNow >= wtDeadline
            \/ /\ wtRet = wtOut
               /\ wtRet \in WtOutcomes
               /\ wtGo = "exited")
    /\ [][wtPc = "returned" => (wtPc' = "returned" /\ wtRet' = wtRet)]_vars

\* The caller returned on the timeout branch, and the goroutine has sent its
\* result and ended after that.
C25_Witness ==
    /\ wtPc = "returned"
    /\ wtRet.err = "timeout"
    /\ wtGo = "exited"
    /\ wtResultCh = <<WtMaxResult>>
    /\ wtNow = wtDeadline
    /\ wtTimeout > 0

(***************************************************************************)
(* Properties of TimeoutMiddleware                                         *)
(***************************************************************************)
\* Who has written to the ResponseWriter, or is writing to it.
TmWriters == {tmWrites[i] : i \in 1..Len(tmWrites)} \cup tmInWrite

\* C26: the response of one request is written by one party, the wrapped
\* handler or the timeout branch's 408 reply, never both and never at the
\* same time; after the timeout branch has replied, the wrapped handler
\* writes no more.
C26_OneWriter ==
    /\ [](Cardinality(TmWriters) <= 1)
    /\ [](Cardinality(tmInWrite) <= 1)
    /\ [][("timeout" \in TmWriters) => (tmNextWrites' = tmNextWrites)]_vars

(***************************************************************************)
(* Properties of AuthMiddleware                                            *)
(***************************************************************************)
\* The request's token: the header without one prefix "Bearer ".
AuthToken == TrimPrefix(auHeader, Bearer)

\* The token is one the library accepts under the middleware's secret: well
\* formed, signed with the secret, and in date.
AuthTokenGood ==
    /\ Len(AuthToken) = 3
    /\ AuthToken[2] = auSecret
    /\ AuthToken[3] = "v"

\* C27: AuthMiddleware calls next only for a request whose Authorization
\* header is non-empty and whose token ParseToken accepts; every other
\* request is answered with 401 and next is never invoked; and when next is
\* invoked, the request context carries the parsed claims under "user".
C27_NextOnlyWithValidToken ==
    /\ auNextCalls <= 1
    /\ auNextCalls = 1 =>
          /\ auHeader # <<>>
          /\ ParseToken(AuthToken, auSecret).err = "nil"
          /\ AuthTokenGood
          /\ auNextUser = ParseToken(AuthToken, auSecret).claims
          /\ auNextUser = [UserID |-> AuthToken[1]]
          /\ auStatus = 0
    /\ auPc = "returned" =>
          IF auHeader # <<>> /\ ParseToken(AuthToken, auSecret).err = "nil"
          THEN auNextCalls = 1
          ELSE auNextCalls = 0 /\ auStatus = StatusUnauthorized

\* next was called for "Bearer " and a token of user 2 signed with the
\* secret.
C27_Witness ==
    /\ auPc = "returned"
    /\ auSecret = "q"
    /\ auHeader = Bearer \o <<"2", "q", "v">>
    /\ auNextCalls = 1
    /\ auNextUser = [UserID |-> "2"]

(***************************************************************************)
(* Properties of WithRetry                                                 *)
(***************************************************************************)
\* fn was called at most maxAttempts times, and every call but the last
\* returned a network timeout.
WrCallsWithinLimit ==
    /\ Len(wrLog) <= (IF wrMax > 0 THEN wrMax ELSE 0)
    /\ \A i \in 1..(Len(wrLog) - 1) :
          wrLog[i] # NilErr /\ wrLog[i].net /\ wrLog[i].timeout

\* What WithRetry returned, against what the last call of fn returned.
WrReturnMatches ==
    IF wrLog # <<>> /\ wrLog[Len(wrLog)] = NilErr
    THEN wrRet = NilErr
    ELSE IF wrLog # <<>> /\ ~(wrLog[Len(wrLog)].net /\ wrLog[Len(wrLog)].timeout)
    THEN wrRet = wrLog[Len(wrLog)]
    ELSE /\ Len(wrLog) = (IF wrMax > 0 THEN wrMax ELSE 0)
         /\ wrRet.kind = "wrapped"
         /\ wrRet.attempts = wrMax
         /\ wrRet.wraps = (IF wrLog = <<>> THEN NilErr ELSE wrLog[Len(wrLog)])
         /\ wrRet # NilErr

\* C28: WithRetry invokes fn at most maxAttempts times; it returns nil at the
\* first attempt that succeeds, returns at once the first error that is not
\* a network timeout, and returns a non-nil error wrapping the last error
\* when all maxAttempts attempts failed with network timeouts; with
\* maxAttempts <= 0 it returns a non-nil error and never invokes fn.
C28_RetryOutcome ==
    /\ WrCallsWithinLimit
    /\ wrPc = "returned" => WrReturnMatches
    /\ (wrPc = "returned" /\ wrMax <= 0) => (wrLog = <<>> /\ wrRet.kind = "wrapped")

\* Three attempts ended in network timeouts, the last one another error than
\* the first, and WithRetry returned the error wrapping the last.
C28_Witness ==
    /\ wrPc = "returned"
    /\ wrMax = WrMaxAttempts
    /\ Len(wrLog) = WrMaxAttempts
    /\ wrRet.kind = "wrapped"
    /\ wrLog[1].id # wrLog[Len(wrLog)].id
    /\ wrRet = AfterAttempts(wrMax, wrLog[Len(wrLog)])

=============================================================================
